---- MODULE Spec2Model ----
(***************************************************************************)
(* HappyPotat homepage: the HubSpot OAuth "connect your account" flow.     *)
(*                                                                         *)
(*   State Store   oauth_states table and its SQL functions                *)
(*                 (create_oauth_state, consume_oauth_state,               *)
(*                 cleanup_oauth_states)                                   *)
(*   Token Store   user_profiles table (api_token, refresh_token,          *)
(*                 access_token_expires_at), written by                    *)
(*                 upsert_user_api_token and by updateApiToken             *)
(*   Lifecycle     getValidAccessToken and /api/refresh-hubspot-token      *)
(*   Flow          OAuthPage (authorize / finalize / legacy)               *)
(*                                                                         *)
(* Time is counted in units of five minutes: the 5 minute refresh margin   *)
(* is 1, the 10 minute life of a state token is 2, the sweep's 1 hour is   *)
(* 12.  Timestamps are compared exactly as the code compares them.         *)
(***************************************************************************)
EXTENDS Integers, FiniteSets, Sequences, TLC

(* ------------------------------ bounds -------------------------------- *)

NumUsers == 2

NumTokens == 1

NumCallers == 2

MaxTime == 3

\* token responses the provider gives
MaxMint == 2

Users == 1..NumUsers

Tokens == 1..NumTokens

Callers == 1..NumCallers


(* ------------------------- program constants -------------------------- *)

\* 5 * 60 * 1000 ms, the refresh safety margin
FiveMinutes == 1

\* createOAuthState(10): p_expires_minutes = 10
ExpiresMinutes == 2

\* INTERVAL '1 hour' of cleanup_oauth_states
SweepAge == 12

(* --------------------------- absent values ---------------------------- *)

\* null user id (no session, no owner)
NoUser == 0

\* no transaction holds the row lock
NoLock == 0

\* no state token (null query parameter)
NoToken == 0

\* null api_token / refresh_token / expires_in / access_token_expires_at
Null == 0

\* error_message NULL / error: null
NoError == "NoError"

\* NOT FOUND: no row of oauth_states has the token
NoRow == [found |-> FALSE, user_id |-> NoUser, expires_at |-> 0, is_used |-> FALSE]

VARIABLES
  now,           \* the clock (NOW(), Date.now())
  oauth_states,  \* table oauth_states: state_token -> row or NoRow
  issued,        \* how many state tokens generateStateToken has drawn
  rowLock,       \* the row lock of SELECT ... FOR UPDATE: token -> caller
  cs,            \* the transactions running consume_oauth_state
  user_profiles, \* table user_profiles: user id -> row or NoProfile
  session,       \* the browser's Supabase session: supabase.auth.getUser()
  minted,        \* how many token responses the provider has given
  gv,            \* the invocation of getValidAccessToken under observation
  page,          \* the OAuthPage in the browser: its URL and React state
  chain,         \* the page's two asynchronous call chains
  issuer,        \* history: who created each state token
  spent,         \* history: the state tokens a finalize has consumed
  up,            \* one call of a Token Store write path: its arguments
  px,            \* the request /api/hubspot-proxy is serving
  ip,            \* the InstaPotat page: its run of handleInstallation
  rq,            \* the request /api/refresh-hubspot-token is serving
  ac,            \* AuthProvider's context and the OAuth page's login form
  gw             \* a second invocation of getValidAccessToken (another tab)

storeVars == <<oauth_states, issued, rowLock, cs>>

tokenVars == <<user_profiles, session, minted, gv>>

flowVars == <<page, chain, issuer, spent>>

\* the InstaPotat page, the refresh endpoint, AuthProvider, the second tab
sideVars == <<ip, rq, ac, gw>>

callVars == <<up, px, sideVars>>

\* what the State Store's transactions leave alone
notStore == <<tokenVars, flowVars, callVars>>

\* what getValidAccessToken and the Token Store leave alone
notToken == <<storeVars, flowVars, callVars>>

vars ==
  <<now, oauth_states, issued, rowLock, cs, user_profiles, session, minted, gv,
    page, chain, issuer, spent, up, px, ip, rq, ac, gw>>

(* ============================ State Store ============================= *)

\* A row of oauth_states.  used_at is written and never read: left out.
StateRow(u, exp) ==
  [found |-> TRUE, user_id |-> u, expires_at |-> exp, is_used |-> FALSE]

\* generateStateToken: 256 random bits.  A draw never repeats an earlier
\* one, so the tokens are drawn in the order 1, 2, ...
generateStateToken == issued + 1

\* INSERT INTO oauth_states ... NOW() + p_expires_minutes
create_oauth_state(tbl, p_state_token, p_user_id, p_expires_minutes) ==
  [tbl EXCEPT ![p_state_token] = StateRow(p_user_id, now + p_expires_minutes)]

\* The row consume_oauth_state returns.
ConsumeResult(u, valid, msg) ==
  [user_id |-> u, is_valid |-> valid, error_message |-> msg]

\* IF v_state.is_used
StateAlreadyUsed_Never(v_state) == FALSE

StateAlreadyUsed(v_state) == v_state.is_used

\* Mutant: the expiry check is left out.
StateExpired_Never(v_state, txn_now) == FALSE

\* IF v_state.expires_at < NOW()
StateExpired(v_state, txn_now) == v_state.expires_at < txn_now

\* The checks of consume_oauth_state on the row it selected, in the order
\* of the function body.  NOW() is the start time of the transaction.
consume_checks(v_state, txn_now) ==
  IF v_state = NoRow
    THEN ConsumeResult(NoUser, FALSE, "Invalid state token")
  ELSE IF StateAlreadyUsed(v_state)
    THEN ConsumeResult(NoUser, FALSE, "State token already used")
  ELSE IF StateExpired(v_state, txn_now)
    THEN ConsumeResult(NoUser, FALSE, "State token expired")
  ELSE ConsumeResult(v_state.user_id, TRUE, NoError)

\* Mutant: the UPDATE is left out.
mark_used_Skipped(tbl, p_state_token) == tbl

\* UPDATE oauth_states SET is_used = TRUE WHERE state_token = p_state_token
mark_used(tbl, p_state_token) ==
  IF tbl[p_state_token] = NoRow THEN tbl
  ELSE [tbl EXCEPT ![p_state_token].is_used = TRUE]

\* Mutant: a plain SELECT, which takes no row lock and never waits.
SelectForUpdateWaits_Never(p_state_token) == FALSE

\* SELECT ... FOR UPDATE waits while another transaction holds the row.
SelectForUpdateWaits(p_state_token) ==
  /\ oauth_states[p_state_token] # NoRow
  /\ rowLock[p_state_token] # NoLock

\* Mutant: the sweep deletes every expired row, without the hour of grace.
SweepMatches_NoGrace(row) ==
  row # NoRow /\ (row.is_used \/ row.expires_at < now)

\* The rows cleanup_oauth_states deletes.
SweepMatches(row) ==
  row # NoRow /\ (row.is_used \/ row.expires_at < now - SweepAge)

\* DELETE FROM oauth_states WHERE is_used = TRUE OR expires_at < NOW() - 1h
cleanup_oauth_states(tbl) ==
  [t \in DOMAIN tbl |-> IF SweepMatches(tbl[t]) THEN NoRow ELSE tbl[t]]

\* A transaction that has returned nothing yet.
NoResult == ConsumeResult(NoUser, FALSE, "pending")

\* A transaction of consume_oauth_state: its position, its argument, its
\* NOW(), the row it selected and the row it returned.  `waited` records
\* that its SELECT found the row locked by another transaction, `late`
\* that it ran on a row whose expires_at was before its NOW().
IdleCaller ==
  [pc |-> "idle", token |-> NoToken, txn_now |-> 0, v_state |-> NoRow,
   waited |-> FALSE, late |-> FALSE, result |-> NoResult]

\* The callers whose consume of token t returned a user.
Owners(t) ==
  {c \in Callers : cs[c].token = t /\ cs[c].pc = "done" /\ cs[c].result.is_valid}

\* The clock advances.
Tick ==
  /\ now < MaxTime
  /\ now' = now + 1
  /\ UNCHANGED <<storeVars, tokenVars, flowVars, callVars>>

\* issue: create_oauth_state called for an authenticated user.
IssueState(u) ==
  /\ issued < NumTokens
  /\ oauth_states' =
       create_oauth_state(oauth_states, generateStateToken, u, ExpiresMinutes)
  /\ issued' = issued + 1
  /\ UNCHANGED <<now, rowLock, cs, notStore>>

\* A caller starts consume_oauth_state(t): the transaction begins and NOW()
\* is fixed.  Callers are interchangeable: they start in the order 1, 2, ...
ConsumeCall(c, t) ==
  /\ cs[c].pc = "idle"
  /\ \A d \in Callers : d < c => cs[d].pc # "idle"
  /\ cs' = [cs EXCEPT ![c].pc = "select", ![c].token = t, ![c].txn_now = now,
                        ![c].waited = (rowLock[t] # NoLock)]
  /\ UNCHANGED <<now, oauth_states, issued, rowLock, notStore>>

\* What a caller keeps once its transaction has returned.
Returned(c, v_state, r) ==
  [pc |-> "done", token |-> cs[c].token, txn_now |-> 0, v_state |-> NoRow,
   waited |-> cs[c].waited,
   late |-> (v_state.found /\ v_state.expires_at < cs[c].txn_now),
   result |-> r]

\* SELECT * INTO v_state ... FOR UPDATE: the row as committed when the lock
\* is granted; NOT FOUND returns at once.
ConsumeSelect(c) ==
  LET t == cs[c].token IN
  /\ cs[c].pc = "select"
  /\ ~SelectForUpdateWaits(t)
  /\ IF oauth_states[t] = NoRow
       THEN /\ cs' = [cs EXCEPT ![c] =
                       Returned(c, NoRow, consume_checks(NoRow, cs[c].txn_now))]
            /\ UNCHANGED rowLock
       ELSE /\ cs' = [d \in Callers |->
                       IF d = c
                         THEN [cs[c] EXCEPT !.pc = "locked", !.v_state = oauth_states[t]]
                       ELSE IF cs[d].pc = "select" /\ cs[d].token = t
                         THEN [cs[d] EXCEPT !.waited = TRUE]
                       ELSE cs[d]]
            /\ rowLock' = [rowLock EXCEPT ![t] = c]
  /\ UNCHANGED <<now, oauth_states, issued, notStore>>

\* The checks, the UPDATE and the commit, which releases the row lock.
ConsumeFinish(c) ==
  LET t == cs[c].token
      r == consume_checks(cs[c].v_state, cs[c].txn_now)
  IN
  /\ cs[c].pc = "locked"
  /\ cs' = [cs EXCEPT ![c] = Returned(c, cs[c].v_state, r)]
  /\ oauth_states' = IF r.is_valid THEN mark_used(oauth_states, t) ELSE oauth_states
  /\ rowLock' = [rowLock EXCEPT ![t] = IF rowLock[t] = c THEN NoLock ELSE rowLock[t]]
  /\ UNCHANGED <<now, issued, notStore>>

\* The periodic sweep.  Its DELETE waits for the row locks of the rows it
\* deletes, so it takes effect when none of them is locked.
Sweep ==
  /\ \A t \in DOMAIN oauth_states :
       SweepMatches(oauth_states[t]) => rowLock[t] = NoLock
  /\ \E t \in DOMAIN oauth_states : SweepMatches(oauth_states[t])
  /\ oauth_states' = cleanup_oauth_states(oauth_states)
  /\ UNCHANGED <<now, issued, rowLock, cs, notStore>>

(* ============================ Token Store ============================= *)

\* No row of user_profiles has the id (.single() returns an error).
NoProfile ==
  [found |-> FALSE, api_token |-> Null, refresh_token |-> Null, expires_at |-> Null]

\* registerUser / ensureUserProfile: insert({id, username, api_token: null}).
\* The username is never read by the token lifecycle: left out.
EmptyProfile ==
  [found |-> TRUE, api_token |-> Null, refresh_token |-> Null, expires_at |-> Null]

\* the empty string '' (a refresh token that is supplied but falsy)
EmptyString == -1

\* JavaScript truthiness of a string or number: null, undefined, 0 and ''
\* are falsy.
Truthy(x) == x # Null /\ x # EmptyString

\* x || null
OrNull(x) == IF Truthy(x) THEN x ELSE Null

\* COALESCE(a, b)
Coalesce(a, b) == IF a # Null THEN a ELSE b

\* expiresIn ? new Date(Date.now() + expiresIn * 1000).toISOString() : null
ExpiresAt(expiresIn) == IF Truthy(expiresIn) THEN now + expiresIn ELSE Null

\* INSERT INTO user_profiles ... ON CONFLICT (id) DO UPDATE SET
\*   api_token = p_api_token, refresh_token = COALESCE(p_refresh_token, old),
\*   access_token_expires_at = COALESCE(p_access_token_expires_at, old)
upsert_user_api_token(tbl, p_user_id, p_api_token, p_refresh_token, p_access_token_expires_at) ==
  [tbl EXCEPT ![p_user_id] =
     IF tbl[p_user_id].found
       THEN [found |-> TRUE,
             api_token |-> p_api_token,
             refresh_token |-> Coalesce(p_refresh_token, tbl[p_user_id].refresh_token),
             expires_at |-> Coalesce(p_access_token_expires_at, tbl[p_user_id].expires_at)]
       ELSE [found |-> TRUE,
             api_token |-> p_api_token,
             refresh_token |-> p_refresh_token,
             expires_at |-> p_access_token_expires_at]]

\* updateApiTokenForUser(userId, apiToken, refreshToken, expiresIn): the rpc
\* upsert_user_api_token with p_refresh_token = refreshToken || null.
updateApiTokenForUser(tbl, userId, apiToken, refreshToken, expiresIn) ==
  upsert_user_api_token(tbl, userId, apiToken, OrNull(refreshToken), ExpiresAt(expiresIn))

\* Mutant: the update object leaves api_token out.
UpdateData_KeepsAccessToken(row, apiToken, refreshToken, expiresIn) ==
  [row EXCEPT !.refresh_token = Coalesce(OrNull(refreshToken), row.refresh_token),
              !.expires_at = Coalesce(ExpiresAt(expiresIn), row.expires_at)]

\* Mutant: a stored refresh token is preferred to the new one.
UpdateData_KeepsRefreshToken(row, apiToken, refreshToken, expiresIn) ==
  [row EXCEPT !.api_token = apiToken,
              !.refresh_token = Coalesce(row.refresh_token, OrNull(refreshToken)),
              !.expires_at = Coalesce(ExpiresAt(expiresIn), row.expires_at)]

\* updateApiToken's update object applied to a row: api_token always,
\* refresh_token if (refreshToken), access_token_expires_at if (expiresAt).
UpdateData(row, apiToken, refreshToken, expiresIn) ==
  [row EXCEPT !.api_token = apiToken,
              !.refresh_token = Coalesce(OrNull(refreshToken), row.refresh_token),
              !.expires_at = Coalesce(ExpiresAt(expiresIn), row.expires_at)]

\* { success, error } of updateApiToken / updateApiTokenForUser
SaveResult(ok, err) == [success |-> ok, error |-> err]

\* What the database does to one call of updateApiToken.
DbOutcomes == {"ok", "ensure_fails", "update_fails"}

\* Mutant: the tokens are written to the first user's record, session or
\* not.
updateApiToken_FirstUser(tbl, apiToken, refreshToken, expiresIn, db) ==
  [tbl |-> [tbl EXCEPT ![1] = UpdateData(EmptyProfile, apiToken, refreshToken, expiresIn)],
   res |-> SaveResult(TRUE, NoError)]

\* updateApiToken(apiToken, refreshToken, expiresIn) run by the session
\* user: getUser, ensureUserProfile (which inserts a missing profile), then
\* update(updateData).eq('id', user.id).  Returns the table and the result.
updateApiToken(tbl, apiToken, refreshToken, expiresIn, db) ==
  IF session = NoUser
    THEN [tbl |-> tbl, res |-> SaveResult(FALSE, "Not authenticated")]
  ELSE IF db = "ensure_fails"
    THEN [tbl |-> tbl, res |-> SaveResult(FALSE, "ensureUserProfile failed")]
  ELSE
    LET ensured == IF tbl[session].found THEN tbl
                   ELSE [tbl EXCEPT ![session] = EmptyProfile]
    IN IF db = "update_fails"
         THEN [tbl |-> ensured, res |-> SaveResult(FALSE, "Database error")]
         ELSE [tbl |-> [ensured EXCEPT ![session] =
                          UpdateData(ensured[session], apiToken, refreshToken, expiresIn)],
               res |-> SaveResult(TRUE, NoError)]

(* ------------------------- the token provider ------------------------- *)

\* expires_in values the provider sends (HubSpot: 1800 s; two units here); Null is
\* a response without the field.
ExpiresInChoices == {Null, 2}

\* A token response {access_token, refresh_token?, expires_in}: the access
\* token is new; the refresh token is new or absent.
TokenResponses ==
  {[ok |-> TRUE, status |-> 200, access_token |-> minted + 1,
    refresh_token |-> r, expires_in |-> x] :
      r \in {Null, minted + 1}, x \in ExpiresInChoices}

\* A response that is not ok (or a body without tokens).
ErrorResponse(status) ==
  [ok |-> FALSE, status |-> status, access_token |-> Null,
   refresh_token |-> Null, expires_in |-> Null]

NoResponse == ErrorResponse(Null)

(* ------------------------ getValidAccessToken ------------------------- *)

GvResult(token, err) == [token |-> token, error |-> err]

ErrNotAuthenticated == "Not authenticated"

ErrProfile == "Failed to fetch user profile"

ErrNoToken == "No HubSpot access token found. Please authenticate with HubSpot."

ErrNoRefreshToken ==
  "Access token expired and no refresh token available. Please re-authenticate with HubSpot."

ErrRefreshFailed ==
  "Failed to refresh access token. Please re-authenticate with HubSpot."

ErrThrown == "Failed to get access token"

\* The invocation of getValidAccessToken under observation: its position, the user and the
\* profile it read, the refresh response, what it returned, how many
\* refresh requests and Token Store writes it has made, and how many
\* requests the refresh endpoint has sent to the provider for it.
IdleGv ==
  [pc |-> "idle", user |-> NoUser, profile |-> NoProfile, resp |-> NoResponse,
   result |-> GvResult(Null, "pending"), refreshCalls |-> 0, writes |-> 0,
   read_at |-> 0, providerCalls |-> 0]

\* Mutant: the margin is added on the wrong side (stale while the token has
\* more than five minutes left).
isExpiredOrExpiringSoon_WrongSide(profile) ==
  profile.expires_at = Null \/ profile.expires_at - FiveMinutes > now

\* !expiresAt || expiresAt <= fiveMinutesFromNow
isExpiredOrExpiringSoon(profile) ==
  profile.expires_at = Null \/ profile.expires_at <= now + FiveMinutes

\* Mutant: the missing refresh token is not checked.
NoRefreshTokenStored_Never(profile) == FALSE

\* !profile.refresh_token
NoRefreshTokenStored(profile) == profile.refresh_token = Null

\* getValidAccessToken up to its first return or to the refresh request.
\* profileError is the error of the profile query.
GvStart ==
  /\ gv.pc = "idle"
  /\ \E profileError \in BOOLEAN :
       LET user == session
           profile == IF user = NoUser THEN NoProfile ELSE user_profiles[user]
           me == [gv EXCEPT !.user = user, !.read_at = now]
           return(r) == [me EXCEPT !.pc = "done", !.result = r]
       IN
       /\ user = NoUser => ~profileError
       /\ gv' =
            IF user = NoUser
              THEN return(GvResult(Null, ErrNotAuthenticated))
            ELSE IF profileError \/ ~profile.found
              THEN return(GvResult(Null, ErrProfile))
            ELSE IF profile.api_token = Null
              THEN [return(GvResult(Null, ErrNoToken)) EXCEPT !.profile = profile]
            ELSE IF ~isExpiredOrExpiringSoon(profile)
              THEN [return(GvResult(profile.api_token, NoError)) EXCEPT !.profile = profile]
            ELSE IF NoRefreshTokenStored(profile)
              THEN [return(GvResult(Null, ErrNoRefreshToken)) EXCEPT !.profile = profile]
            ELSE [me EXCEPT !.pc = "refreshing", !.profile = profile,
                            !.refreshCalls = @ + 1]
  /\ UNCHANGED <<now, user_profiles, session, minted, notToken>>

\* /api/refresh-hubspot-token serving the request: one POST to the
\* provider's token endpoint; its answer, or the status of the failure.
\* A failure is the provider's status passed on (400), or 500: credentials
\* missing (no request to the provider) or the request to the provider
\* threw.
RefreshHandler ==
  /\ gv.pc = "refreshing"
  /\ \/ /\ minted < MaxMint
        /\ \E r \in TokenResponses :
             gv' = [gv EXCEPT !.pc = "responded", !.resp = r,
                              !.providerCalls = @ + 1]
        /\ minted' = minted + 1
     \/ /\ \E status \in {400, 500}, sent \in {0, 1} :
             /\ status = 400 => sent = 1
             /\ gv' = [gv EXCEPT !.pc = "responded", !.resp = ErrorResponse(status),
                                 !.providerCalls = @ + sent]
        /\ UNCHANGED minted
  /\ UNCHANGED <<now, user_profiles, session, notToken>>

\* fetch('/api/refresh-hubspot-token') throws: the catch block returns.
GvFetchThrows ==
  /\ gv.pc = "refreshing"
  /\ gv' = [gv EXCEPT !.pc = "done", !.result = GvResult(Null, ErrThrown)]
  /\ UNCHANGED <<now, user_profiles, session, minted, notToken>>

\* Mutant: every response is taken for a success.
ResponseOk_Always(resp) == TRUE

\* response.ok
ResponseOk(resp) == resp.ok

\* Mutant: a failed refresh is requested again.
RefreshFailed_Retry(g) ==
  [g EXCEPT !.pc = "refreshing", !.refreshCalls = @ + 1]

\* if (!response.ok) return { token: null, error: 'Failed to refresh ...' }
RefreshFailed(g) ==
  [g EXCEPT !.pc = "done", !.result = GvResult(Null, ErrRefreshFailed)]

\* getValidAccessToken after the response: !response.ok returns the error;
\* otherwise updateApiToken saves the new tokens and the new access token is
\* returned whether the save succeeded or not.
GvFinish ==
  /\ gv.pc = "responded"
  /\ IF ~ResponseOk(gv.resp)
       THEN /\ gv' = RefreshFailed(gv)
            /\ UNCHANGED user_profiles
       ELSE \E db \in DbOutcomes :
              LET saved == updateApiToken(user_profiles, gv.resp.access_token,
                                          gv.resp.refresh_token,
                                          gv.resp.expires_in, db)
              IN /\ user_profiles' = saved.tbl
                 /\ gv' = [gv EXCEPT
                      !.pc = "done",
                      !.writes = IF saved.res.success THEN @ + 1 ELSE @,
                      !.result = GvResult(gv.resp.access_token, NoError)]
  /\ UNCHANGED <<now, session, minted, notToken>>

\* The caller invokes getValidAccessToken again (before its next API call).
GvCallAgain ==
  /\ gv.pc = "done"
  /\ gv' = IdleGv
  /\ UNCHANGED <<now, user_profiles, session, minted, notToken>>

(* --------------------- the Token Store's other users ------------------ *)

\* supabase.auth.signInWithPassword / signOut in the browser
SignIn(u) ==
  /\ session # u
  /\ session' = u
  /\ UNCHANGED <<now, user_profiles, minted, gv, notToken>>

SignOut ==
  /\ session # NoUser
  /\ session' = NoUser
  /\ UNCHANGED <<now, user_profiles, minted, gv, notToken>>

\* registerUser: the profile row of a new user, without tokens.
CreateProfile(u) ==
  /\ ~user_profiles[u].found
  /\ user_profiles' = [user_profiles EXCEPT ![u] = EmptyProfile]
  /\ UNCHANGED <<now, session, minted, gv, notToken>>

\* A completed code exchange saved for u by updateApiTokenForUser.
ExchangeSaved(u) ==
  /\ minted < MaxMint
  /\ \E r \in TokenResponses :
       user_profiles' = updateApiTokenForUser(user_profiles, u, r.access_token,
                                              r.refresh_token, r.expires_in)
  /\ minted' = minted + 1
  /\ UNCHANGED <<now, session, gv, notToken>>

(* ============================== OAuthPage ============================= *)

\* initializeApp (run on mount) starts one chain; the auth-state effect
\* starts the other after a login-form submission.
Chains == {"init", "auth"}

Steps == {"authorize", "finalize", "legacy"}

\* A chain: its position, the userId passed to exchangeCodeForToken, what
\* consumeOAuthState returned, the exchange response, saveError, and how
\* many exchange requests and Token Store writes it has made.
IdleChain ==
  [pc |-> "idle", userId |-> NoUser, result |-> NoResult, resp |-> NoResponse,
   saveError |-> NoError, requests |-> 0, writes |-> 0]

\* No page is open (the browser has left for returnUrl or for HubSpot).
ClosedPage ==
  [step |-> "closed", code |-> FALSE, state |-> NoToken, returnUrl |-> FALSE,
   showForm |-> FALSE, buttonDisabled |-> FALSE, waitingForAuth |-> FALSE,
   hasProcessedAuth |-> FALSE, errorTimer |-> FALSE, cred |-> NoUser]

\* The component's initial state for a URL: useState(true) for showForm,
\* useState(false) for buttonDisabled and waitingForAuth, useRef(false).
NewPage(step, code, state, returnUrl) ==
  [step |-> step, code |-> code, state |-> state, returnUrl |-> returnUrl,
   showForm |-> TRUE, buttonDisabled |-> FALSE, waitingForAuth |-> FALSE,
   hasProcessedAuth |-> FALSE, errorTimer |-> FALSE, cred |-> NoUser]

\* showError: the message replaces the form; a timer brings the form back.
showError(p) == [p EXCEPT !.showForm = FALSE, !.errorTimer = TRUE]

ErrMissingCode == "Missing authorization code"

ErrMissingState == "Missing state parameter"

ErrRpc == "rpc error"

Failed(c, msg) ==
  [c EXCEPT !.pc = "failed", !.result = ConsumeResult(NoUser, FALSE, msg)]

\* Mutant: only the code is checked.
MissingParameter_OnlyCode(code, state) ==
  IF ~code THEN ErrMissingCode ELSE NoError

\* handleFinalizeStep: if (!code) ... if (!state) ...
MissingParameter(code, state) ==
  IF ~code THEN ErrMissingCode
  ELSE IF state = NoToken THEN ErrMissingState
  ELSE NoError

\* The browser opens the page with a URL; whoever builds the link chooses
\* the parameters.  The component mounts with its initial state.
Load(step, code, state, returnUrl) ==
  /\ page = ClosedPage
  /\ page' = NewPage(step, code, state, returnUrl)
  /\ chain' = [k \in Chains |->
                 IF k = "init" THEN [IdleChain EXCEPT !.pc = "mounting"] ELSE IdleChain]
  /\ UNCHANGED <<now, callVars, storeVars, tokenVars, issuer, spent>>

\* initializeApp: authorize and legacy show the form; finalize runs
\* handleFinalizeStep up to its first await.
initializeApp ==
  /\ chain["init"].pc = "mounting"
  /\ LET missing == MissingParameter(page.code, page.state)
     IN IF page.step # "finalize"
          THEN /\ chain' = [chain EXCEPT !["init"].pc = "idle"]
               /\ UNCHANGED page
        ELSE IF missing # NoError
          THEN /\ chain' = [chain EXCEPT !["init"] = Failed(@, missing)]
               /\ page' = showError(page)
        ELSE /\ chain' = [chain EXCEPT !["init"].pc = "consuming"]
             /\ UNCHANGED page
  /\ UNCHANGED <<now, callVars, storeVars, tokenVars, issuer, spent>>

\* The database runs consume_oauth_state for consumeOAuthState(state), or
\* the rpc fails.
FinalizeConsumeDb ==
  /\ chain["init"].pc = "consuming"
  /\ \E rpcError \in BOOLEAN :
       LET t == page.state
           row == IF t \in Tokens THEN oauth_states[t] ELSE NoRow
           r == IF rpcError THEN ConsumeResult(NoUser, FALSE, ErrRpc)
                ELSE consume_checks(row, now)
       IN /\ chain' = [chain EXCEPT !["init"].pc = "consumed", !["init"].result = r]
          /\ oauth_states' = IF r.is_valid THEN mark_used(oauth_states, t)
                             ELSE oauth_states
          /\ spent' = IF r.is_valid THEN spent \cup {t} ELSE spent
  /\ UNCHANGED <<now, callVars, issued, rowLock, cs, tokenVars, page, issuer>>

\* exchangeCodeForToken up to its fetch of the exchange endpoint.
exchangeCodeForToken(c, userId) ==
  [c EXCEPT !.pc = "exchanging", !.userId = userId, !.requests = @ + 1]

\* handleFinalizeStep after the await: an error or no userId shows the
\* error; otherwise exchangeCodeForToken(code, userId).
FinalizeConsumed ==
  /\ chain["init"].pc = "consumed"
  /\ LET r == chain["init"].result
     IN IF ~r.is_valid \/ r.user_id = NoUser
          THEN /\ chain' = [chain EXCEPT !["init"].pc = "failed"]
               /\ page' = showError(page)
          ELSE /\ chain' = [chain EXCEPT !["init"] = exchangeCodeForToken(@, r.user_id)]
               /\ page' = [page EXCEPT !.showForm = FALSE]
  /\ UNCHANGED <<now, callVars, storeVars, tokenVars, issuer, spent>>

\* What the provider answers to a code exchange: access_token,
\* refresh_token and expires_in.
ExchangeResponses ==
  {r \in TokenResponses : r.refresh_token # Null /\ r.expires_in # Null}

\* The exchange endpoint answers: a token response, or a body without
\* access_token (or the fetch throws), which ends in showError.
ExchangeRespond(k) ==
  /\ chain[k].pc = "exchanging"
  /\ \/ /\ minted < MaxMint
        /\ \E r \in ExchangeResponses :
             chain' = [chain EXCEPT ![k].pc = "saving", ![k].resp = r]
        /\ minted' = minted + 1
        /\ UNCHANGED page
     \/ /\ chain' = [chain EXCEPT ![k].pc = "failed"]
        /\ page' = showError(page)
        /\ UNCHANGED minted
  /\ UNCHANGED <<now, callVars, storeVars, user_profiles, session, gv, issuer, spent>>

\* updateApiTokenForUser with its result: the rpc runs the upsert or fails.
SaveForUser(tbl, userId, resp, db) ==
  IF db = "ok"
    THEN [tbl |-> updateApiTokenForUser(tbl, userId, resp.access_token,
                                        resp.refresh_token, resp.expires_in),
          res |-> SaveResult(TRUE, NoError)]
    ELSE [tbl |-> tbl, res |-> SaveResult(FALSE, "Database error")]

\* Mutant: the tokens are always saved for the signed-in user.
SaveTokens_CurrentUser(tbl, userId, resp, db) ==
  updateApiToken(tbl, resp.access_token, resp.refresh_token, resp.expires_in, db)

\* exchangeCodeForToken: if (userId) updateApiTokenForUser(userId, ...)
\* else updateApiToken(...)
SaveTokens(tbl, userId, resp, db) ==
  IF userId # NoUser
    THEN SaveForUser(tbl, userId, resp, db)
    ELSE updateApiToken(tbl, resp.access_token, resp.refresh_token, resp.expires_in, db)

\* Mutant: saveError is not tested.
HasSaveError_Never(res) == FALSE

\* saveError = result.error; if (saveError)
HasSaveError(res) == res.error # NoError

\* exchangeCodeForToken saves the tokens: saveError shows the error and
\* returns; `success` is only logged.
SaveDone(k) ==
  /\ chain[k].pc = "saving"
  /\ \E db \in DbOutcomes :
       LET saved == SaveTokens(user_profiles, chain[k].userId, chain[k].resp, db)
           wrote == IF saved.res.success THEN 1 ELSE 0
       IN /\ user_profiles' = saved.tbl
          /\ IF ~HasSaveError(saved.res)
               THEN /\ chain' = [chain EXCEPT ![k].pc = "saved",
                                              ![k].writes = @ + wrote]
                    /\ UNCHANGED page
               ELSE /\ chain' = [chain EXCEPT ![k].pc = "failed",
                                              ![k].writes = @ + wrote,
                                              ![k].saveError = saved.res.error]
                    /\ page' = showError(page)
  /\ UNCHANGED <<now, callVars, storeVars, session, minted, gv, issuer, spent>>

\* Mutant: a failed account fetch takes the saved tokens back.
fetchAccountInfo_RollsBack(tbl, owner) ==
  [u \in Users |-> IF u = owner THEN EmptyProfile ELSE tbl[u]]

\* fetchAccountInfo: one GET of the account-info endpoint with the access
\* token; it reads and writes no stored record.
fetchAccountInfo(tbl, owner) == tbl

\* fetchAccountInfo answers: displayWelcomeMessage, or showError when there
\* is no portalId or the fetch throws.
AccountInfoDone(k) ==
  /\ chain[k].pc = "saved"
  /\ \/ /\ chain' = [chain EXCEPT ![k].pc = "welcome"]
        /\ page' = [page EXCEPT !.showForm = FALSE]
        /\ UNCHANGED user_profiles
     \/ /\ chain' = [chain EXCEPT ![k].pc = "failed"]
        /\ page' = showError(page)
        /\ user_profiles' =
             fetchAccountInfo(user_profiles,
                              IF chain[k].userId # NoUser THEN chain[k].userId
                              ELSE session)
  /\ UNCHANGED <<now, callVars, storeVars, session, minted, gv, issuer, spent>>

\* The timer of showError fires: the form is shown again.
ErrorTimeout ==
  /\ page.errorTimer
  /\ page' = [page EXCEPT !.showForm = TRUE, !.errorTimer = FALSE]
  /\ UNCHANGED <<now, callVars, storeVars, tokenVars, chain, issuer, spent>>

\* handleSubmit up to loginUser: the visitor submits the login form with the
\* credentials of cred (NoUser: credentials of nobody).
handleSubmit(cred) ==
  /\ page.step \in Steps
  /\ chain["init"].pc # "mounting"
  /\ page.showForm
  /\ ~page.buttonDisabled
  /\ IF ~page.returnUrl
       THEN /\ page' = showError(page)
            /\ UNCHANGED chain
       ELSE /\ page' = [page EXCEPT !.buttonDisabled = TRUE,
                                    !.hasProcessedAuth = FALSE, !.cred = cred]
            /\ chain' = [chain EXCEPT !["auth"].pc = "loggingIn"]
  /\ UNCHANGED <<now, callVars, storeVars, tokenVars, issuer, spent>>

\* loginUser returns: signInWithPassword starts the session of cred; without
\* a profile row loginUser reports an error.  Success sets waitingForAuth.
LoginDone ==
  /\ chain["auth"].pc = "loggingIn"
  /\ IF page.cred = NoUser
       THEN /\ page' = [page EXCEPT !.buttonDisabled = FALSE]
            /\ chain' = [chain EXCEPT !["auth"].pc = "idle"]
            /\ UNCHANGED session
       ELSE /\ session' = page.cred
            /\ IF user_profiles[page.cred].found
                 THEN /\ page' = [page EXCEPT !.waitingForAuth = TRUE, !.cred = NoUser]
                      /\ chain' = [chain EXCEPT !["auth"].pc = "authed"]
                 ELSE /\ page' = [page EXCEPT !.buttonDisabled = FALSE, !.cred = NoUser]
                      /\ chain' = [chain EXCEPT !["auth"].pc = "idle"]
  /\ UNCHANGED <<now, callVars, storeVars, user_profiles, minted, gv, issuer, spent>>

\* The effect on [user, authLoading, waitingForAuth]: step 'authorize' runs
\* handleAuthorizeSubmit, every other step runs handleLegacySubmit.
AuthEffect ==
  /\ page.step \in Steps
  /\ session # NoUser
  /\ page.waitingForAuth
  /\ ~page.hasProcessedAuth
  /\ IF page.step = "authorize"
       THEN IF ~page.returnUrl
              THEN /\ page' = showError([page EXCEPT !.hasProcessedAuth = TRUE])
                   /\ chain' = [chain EXCEPT !["auth"].pc = "failed"]
              ELSE /\ page' = [page EXCEPT !.hasProcessedAuth = TRUE]
                   /\ chain' = [chain EXCEPT !["auth"].pc = "creating"]
     ELSE IF page.code
       THEN /\ page' = [page EXCEPT !.hasProcessedAuth = TRUE]
            /\ chain' = [chain EXCEPT !["auth"].pc = "legacyTimer"]
     ELSE /\ page' = [page EXCEPT !.hasProcessedAuth = TRUE, !.showForm = FALSE]
          /\ chain' = [chain EXCEPT !["auth"].pc = "leaving"]
  /\ UNCHANGED <<now, callVars, storeVars, tokenVars, issuer, spent>>

\* Mutant: createOAuthState does not test the user.
NoSession_Never(user) == FALSE

\* createOAuthState: if (!user) return { stateToken: null, error: 'Not authenticated' }
NoSession(user) == user = NoUser

\* handleAuthorizeSubmit: createOAuthState(10) for the signed-in user; its
\* error (no session, or the rpc's) is shown.
AuthorizeCreate ==
  /\ chain["auth"].pc = "creating"
  /\ \/ /\ ~NoSession(session)
        /\ issued < NumTokens
        /\ oauth_states' = create_oauth_state(oauth_states, generateStateToken,
                                              session, ExpiresMinutes)
        /\ issued' = issued + 1
        /\ issuer' = [issuer EXCEPT ![generateStateToken] = session]
        /\ chain' = [chain EXCEPT !["auth"].pc = "redirecting"]
        /\ UNCHANGED page
     \/ /\ chain' = [chain EXCEPT !["auth"] =
                          Failed(@, IF NoSession(session) THEN ErrNotAuthenticated
                                    ELSE ErrRpc)]
        /\ page' = showError(page)
        /\ UNCHANGED <<oauth_states, issued, issuer>>
  /\ UNCHANGED <<now, callVars, rowLock, cs, tokenVars, spent>>

\* handleLegacySubmit's timer: exchangeCodeForToken(code), without userId.
LegacyTimer ==
  /\ chain["auth"].pc = "legacyTimer"
  /\ chain' = [chain EXCEPT !["auth"] = exchangeCodeForToken(@, NoUser)]
  /\ page' = [page EXCEPT !.showForm = FALSE]
  /\ UNCHANGED <<now, callVars, storeVars, tokenVars, issuer, spent>>

\* The browser leaves the page: window.location.href = ... (for returnUrl
\* with the state, for HubSpot, for returnUrl after the welcome), or the
\* visitor closes it or follows another link.  Its chains end with it.
Leave ==
  /\ page # ClosedPage
  /\ page' = ClosedPage
  /\ chain' = [k \in Chains |-> IdleChain]
  /\ UNCHANGED <<now, callVars, storeVars, tokenVars, issuer, spent>>

(* ========================= /api/hubspot-proxy ========================= *)

PxErrProfile == "User profile not found"

PxErrThrown == "Error refreshing token"

\* What the handler answered: the status it set itself; when the request
\* went to the HubSpot API, HubSpot's status (here 200) is passed on.
PxAnswer(status, err) == [status |-> status, error |-> err]

\* The request the handler is serving: its position, whether it has a body
\* object and the body an endpoint, its Authorization header (missing or
\* not a Bearer one, a Bearer token getUser rejects, a valid one), the user
\* the bearer token validated to, the profile and the time it read, the
\* refresh response, the access token it sent to the HubSpot API, its
\* answer, and how many refresh requests and profile updates it has made.
IdlePx ==
  [pc |-> "idle", hasBody |-> FALSE, endpoint |-> FALSE, header |-> "missing",
   user |-> NoUser, profile |-> NoProfile, read_at |-> 0,
   resp |-> NoResponse, sent |-> Null, answer |-> PxAnswer(Null, "pending"),
   refreshCalls |-> 0, writes |-> 0]

\* Mutant: the five-minute margin is left out.
ProxyNeedsRefresh_NoMargin(profile) ==
  profile.expires_at # Null /\ profile.expires_at <= now

\* if (profile.access_token_expires_at) { if (expiresAt <= fiveMinutesFromNow)
ProxyNeedsRefresh(profile) ==
  profile.expires_at # Null /\ profile.expires_at <= now + FiveMinutes

\* .update({ api_token, refresh_token, access_token_expires_at }): a
\* refresh_token that is undefined is left out of the request body.
ProxyUpdate(row, newTokens, at) ==
  [row EXCEPT !.api_token = newTokens.access_token,
              !.refresh_token = IF newTokens.refresh_token # Null
                                  THEN newTokens.refresh_token ELSE @,
              !.expires_at = at + newTokens.expires_in]

\* The handler up to its first answer or to the refresh request.  u is the
\* user a valid bearer token belongs to.  Without a body object the
\* destructuring of req.body throws into the outer catch (500).
PxStart(hasBody, endpoint, header, u) ==
  /\ px.pc = "idle"
  /\ ~hasBody => ~endpoint
  /\ header # "valid" => u = NoUser
  /\ header = "valid" => u \in Users
  /\ LET profile == IF u = NoUser THEN NoProfile ELSE user_profiles[u]
         req == [px EXCEPT !.hasBody = hasBody, !.endpoint = endpoint,
                           !.header = header]
         reject(st, err) == [req EXCEPT !.pc = "done", !.answer = PxAnswer(st, err)]
         me == [req EXCEPT !.user = u, !.read_at = now]
         answer(st, err) == [me EXCEPT !.pc = "done", !.answer = PxAnswer(st, err)]
         forward(tok) == [answer(200, NoError) EXCEPT !.sent = tok]
     IN px' =
          IF ~hasBody
            THEN reject(500, "Internal server error")
          ELSE IF ~endpoint
            THEN reject(400, "endpoint is required")
          ELSE IF header = "missing"
            THEN reject(401, "Missing or invalid authorization header")
          ELSE IF header = "invalid"
            THEN reject(401, "Invalid user token")
          ELSE IF ~profile.found
            THEN answer(404, PxErrProfile)
          ELSE IF profile.api_token = Null
            THEN [answer(404, ErrNoToken) EXCEPT !.profile = profile]
          ELSE IF ~ProxyNeedsRefresh(profile)
            THEN [forward(profile.api_token) EXCEPT !.profile = profile]
          ELSE IF profile.refresh_token = Null
            THEN [answer(401, ErrNoRefreshToken) EXCEPT !.profile = profile]
          ELSE [me EXCEPT !.pc = "refreshing", !.profile = profile,
                          !.refreshCalls = @ + 1]
  /\ UNCHANGED <<now, storeVars, tokenVars, flowVars, up, sideVars>>

\* /api/refresh-hubspot-token serving the handler's request.
PxRefreshHandler ==
  /\ px.pc = "refreshing"
  /\ \/ /\ minted < MaxMint
        /\ \E r \in TokenResponses :
             px' = [px EXCEPT !.pc = "responded", !.resp = r]
        /\ minted' = minted + 1
     \/ /\ \E status \in {400, 500} :
             px' = [px EXCEPT !.pc = "responded", !.resp = ErrorResponse(status)]
        /\ UNCHANGED minted
  /\ UNCHANGED <<now, storeVars, user_profiles, session, gv, flowVars, up, sideVars>>

\* fetch('/api/refresh-hubspot-token') throws: the inner catch answers 500.
PxFetchThrows ==
  /\ px.pc = "refreshing"
  /\ px' = [px EXCEPT !.pc = "done", !.answer = PxAnswer(500, PxErrThrown)]
  /\ UNCHANGED <<now, storeVars, tokenVars, flowVars, up, sideVars>>

\* The handler after the refresh response: !refreshResponse.ok answers 401;
\* a response without expires_in makes toISOString throw (500); otherwise
\* the profile is updated and the request goes to HubSpot with the new
\* access token whether the update succeeded or not.
PxFinish ==
  /\ px.pc = "responded"
  /\ IF ~px.resp.ok
       THEN /\ px' = [px EXCEPT !.pc = "done",
                                !.answer = PxAnswer(401, ErrRefreshFailed)]
            /\ UNCHANGED user_profiles
     ELSE IF px.resp.expires_in = Null
       THEN /\ px' = [px EXCEPT !.pc = "done",
                                !.answer = PxAnswer(500, PxErrThrown)]
            /\ UNCHANGED user_profiles
     ELSE \E updateError \in BOOLEAN :
            /\ user_profiles' =
                 IF updateError THEN user_profiles
                 ELSE [user_profiles EXCEPT
                         ![px.user] = ProxyUpdate(@, px.resp, px.read_at)]
            /\ px' = [px EXCEPT !.pc = "done",
                                !.writes = IF updateError THEN @ ELSE @ + 1,
                                !.sent = px.resp.access_token,
                                !.answer = PxAnswer(200, NoError)]
  /\ UNCHANGED <<now, storeVars, session, minted, gv, flowVars, up, sideVars>>

\* The next request arrives.
PxNextRequest ==
  /\ px.pc = "done"
  /\ px' = IdlePx
  /\ UNCHANGED <<now, storeVars, tokenVars, flowVars, up, sideVars>>

(* ===================== /api/refresh-hubspot-token ===================== *)

\* client_id, client_secret, redirect_uri
Credentials == {"client_id", "client_secret", "redirect_uri"}

\* What the endpoint answered: the status, whether the body carries tokens,
\* and whether the handler wrote it or threw before writing any answer (the
\* platform then answers 500).
RqAnswer(status, tokens, thrown) ==
  [status |-> status, tokens |-> tokens, thrown |-> thrown]

\* The request being served: its method, whether it has a parsed body
\* (req.body is an object), whether the body has a refresh_token, the
\* credentials in the body and in the environment, the provider's status
\* (Null: not asked or no answer), the requests sent to the provider, and
\* the answer.
IdleRq ==
  [pc |-> "idle", method |-> "none", hasBody |-> FALSE, refresh_token |-> FALSE,
   body |-> {}, env |-> {}, provider |-> Null, providerCalls |-> 0,
   answer |-> RqAnswer(Null, FALSE, FALSE)]

\* const clientId = client_id || CLIENT_ID; ... if (!clientId || !clientSecret || !redirectUri)
CredentialsMissing(r) == Credentials # r.body \cup r.env

\* The handler up to its first answer or to the request to the provider.
\* const { refresh_token, ... } = req.body is outside the try block: without
\* a body it throws and the handler writes no answer.
RqArrive(method, hasBody, refresh_token, body, env) ==
  /\ rq.pc = "idle"
  /\ ~hasBody => ~refresh_token /\ body = {}
  /\ LET me == [IdleRq EXCEPT !.method = method, !.hasBody = hasBody,
                              !.refresh_token = refresh_token,
                              !.body = body, !.env = env]
         answer(st) == [me EXCEPT !.pc = "done", !.answer = RqAnswer(st, FALSE, FALSE)]
     IN rq' =
          IF method = "OPTIONS" THEN answer(200)
          ELSE IF method # "POST" THEN answer(405)
          ELSE IF ~hasBody
            THEN [me EXCEPT !.pc = "done", !.answer = RqAnswer(500, FALSE, TRUE)]
          ELSE IF ~refresh_token THEN answer(400)
          ELSE IF CredentialsMissing(me) THEN answer(500)
          ELSE [me EXCEPT !.pc = "calling", !.providerCalls = @ + 1]
  /\ UNCHANGED <<now, storeVars, tokenVars, flowVars, up, px, ip, ac, gw>>

\* The provider's token endpoint answers: ok, or a non-success status that
\* is passed on; or the fetch (or response.json()) throws: the catch, 500.
RqProviderAnswers ==
  /\ rq.pc = "calling"
  /\ \/ rq' = [rq EXCEPT !.pc = "done", !.provider = 200,
                         !.answer = RqAnswer(200, TRUE, FALSE)]
     \/ \E status \in {400, 401, 500} :
          rq' = [rq EXCEPT !.pc = "done", !.provider = status,
                           !.answer = RqAnswer(status, FALSE, FALSE)]
     \/ rq' = [rq EXCEPT !.pc = "done", !.answer = RqAnswer(500, FALSE, FALSE)]
  /\ UNCHANGED <<now, storeVars, tokenVars, flowVars, up, px, ip, ac, gw>>

\* The next request arrives.
RqNextRequest ==
  /\ rq.pc = "done"
  /\ rq' = IdleRq
  /\ UNCHANGED <<now, storeVars, tokenVars, flowVars, up, px, ip, ac, gw>>

(* ========================= InstaPotatOAuthPage ======================== *)

\* portal ids the account-info function can answer
NumPortals == 2

\* localStorage of the origin: the two keys of InstaPotat
Storage(token, portal) ==
  [instapotat_access_token |-> token, instapotat_portal_id |-> portal]

\* The page: its position in handleInstallation, whether the URL has code
\* and returnUrl, isProcessing, the access_token of the exchange's answer
\* and the portalId of the account info (Null: none), the requests it has
\* sent to the two cloud functions, where the window is, and localStorage.
IdleIp ==
  [pc |-> "closed", code |-> FALSE, returnUrl |-> FALSE, isProcessing |-> TRUE,
   access_token |-> Null, portalId |-> Null, exchangeCalls |-> 0,
   infoCalls |-> 0, location |-> "elsewhere", localStorage |-> Storage(Null, Null)]

\* the catch block, and the two early returns: a message, setIsProcessing(false)
InstallFailed(p) == [p EXCEPT !.pc = "failed", !.isProcessing = FALSE]

\* Mutant: an answer without portalId is accepted.
HasPortalId_Always(accountData) == TRUE

\* if (!accountData.portalId) throw
HasPortalId(accountData) == accountData # Null

\* The visitor opens /instapotat-oauth with or without code and returnUrl;
\* localStorage is what earlier visits left.
IpOpen(code, returnUrl) ==
  /\ ip.pc = "closed"
  /\ ip' = [IdleIp EXCEPT !.pc = "mounted", !.code = code, !.returnUrl = returnUrl,
                          !.location = "instapotat-oauth",
                          !.localStorage = ip.localStorage]
  /\ UNCHANGED <<now, storeVars, tokenVars, flowVars, up, px, rq, ac, gw>>

\* useEffect(() => { handleInstallation() }, []) up to the first request.
handleInstallation ==
  /\ ip.pc = "mounted"
  /\ ip' = IF ~ip.code \/ ~ip.returnUrl
             THEN InstallFailed(ip)
             ELSE [ip EXCEPT !.pc = "exchanging", !.exchangeCalls = @ + 1]
  /\ UNCHANGED <<now, storeVars, tokenVars, flowVars, up, px, rq, ac, gw>>

\* exchange_code answers: a body with access_token, or one without (or the
\* fetch or response.json() throws), which the catch block reports.
IpExchangeRespond ==
  /\ ip.pc = "exchanging"
  /\ \E data \in {Null} \cup 1..MaxMint :
       ip' = IF data = Null
               THEN InstallFailed(ip)
               ELSE [ip EXCEPT !.pc = "fetchingInfo", !.access_token = data,
                               !.infoCalls = @ + 1]
  /\ UNCHANGED <<now, storeVars, tokenVars, flowVars, up, px, rq, ac, gw>>

\* get_account_info answers: with a portalId the two keys are stored and
\* processing ends; without one (or on a throw) the catch block reports.
IpAccountInfoRespond ==
  /\ ip.pc = "fetchingInfo"
  /\ \E accountData \in {Null} \cup 1..NumPortals :
       ip' = IF ~HasPortalId(accountData)
               THEN InstallFailed(ip)
               ELSE [ip EXCEPT !.pc = "installed", !.portalId = accountData,
                               !.isProcessing = FALSE,
                               !.localStorage = Storage(ip.access_token, accountData)]
  /\ UNCHANGED <<now, storeVars, tokenVars, flowVars, up, px, rq, ac, gw>>

\* The two nested timers (1500 ms, 500 ms): a message, then
\* window.location.href = returnUrl.
IpRedirectTimer ==
  /\ ip.pc \in {"installed", "redirecting"}
  /\ ip' = IF ip.pc = "installed"
             THEN [ip EXCEPT !.pc = "redirecting"]
             ELSE [ip EXCEPT !.pc = "closed", !.location = "returnUrl"]
  /\ UNCHANGED <<now, storeVars, tokenVars, flowVars, up, px, rq, ac, gw>>

\* The visitor closes the page or goes elsewhere: its script ends.
IpLeave ==
  /\ ip.pc # "closed"
  /\ ip' = [ip EXCEPT !.pc = "closed"]
  /\ UNCHANGED <<now, storeVars, tokenVars, flowVars, up, px, rq, ac, gw>>

(* ============== AuthProvider and the OAuth page's login ============== *)

\* AuthProvider under an OAuth page: the Supabase client's signed-in user;
\* the context's user and loading; the callbacks (getSession's then, the
\* onAuthStateChange listener) that are awaiting refreshUser or have just
\* come back from it (a set: two callbacks at the same place for the same
\* user act alike); whether getSession is still to resolve; the position of
\* a signOut call, and whether one has completed with no sign-in since.
\* The page: its step, the position of handleSubmit and its credentials,
\* buttonDisabled, waitingForAuth, hasProcessedAuth.current, whether a
\* dependency of the auth effect changed since the effect last ran, how
\* many submissions succeeded, how often the continuation ran, and which.
IdleAc ==
  [mount |-> "closed", step |-> "closed", client |-> NoUser, user |-> NoUser,
   loading |-> TRUE, handlers |-> {}, signOut |-> "idle", signedOut |-> FALSE,
   submit |-> "idle", cred |-> NoUser, buttonDisabled |-> FALSE,
   waitingForAuth |-> FALSE, hasProcessedAuth |-> FALSE, changed |-> FALSE,
   successes |-> 0, runs |-> 0, ran |-> "none"]

\* The browser opens the OAuth page: AuthProvider and the page mount, the
\* effects run for the first time.  The client may hold a session already.
AcMount(step, u) ==
  /\ ac.mount = "closed"
  /\ ac' = [IdleAc EXCEPT !.mount = "getSession", !.step = step, !.client = u,
                          !.changed = TRUE]
  /\ UNCHANGED <<now, storeVars, tokenVars, flowVars, up, px, ip, rq, gw>>

\* supabase.auth.getSession().then(...): setSession, then refreshUser for
\* the session's user, or setLoading(false) at once.
AcGetSession ==
  /\ ac.mount = "getSession"
  /\ ac' = IF ac.client # NoUser
             THEN [ac EXCEPT !.mount = "mounted",
                             !.handlers = @ \cup {[user |-> ac.client, stage |-> "refreshUser"]}]
             ELSE [ac EXCEPT !.mount = "mounted", !.loading = FALSE,
                             !.changed = @ \/ ac.loading]
  /\ UNCHANGED <<now, storeVars, tokenVars, flowVars, up, px, ip, rq, gw>>

\* The listener of onAuthStateChange called with the client's session
\* (INITIAL_SESSION, TOKEN_REFRESHED, a SIGNED_IN repeated on focus, a
\* sign-in or sign-out in another tab: client becomes s).
onAuthStateChange(s) ==
  /\ ac.mount # "closed"
  /\ ac' = IF s # NoUser
             THEN [ac EXCEPT !.client = s, !.signedOut = FALSE,
                             !.handlers = @ \cup {[user |-> s, stage |-> "refreshUser"]}]
             ELSE [ac EXCEPT !.client = s, !.user = NoUser, !.loading = FALSE,
                             !.changed = @ \/ ac.user # NoUser \/ ac.loading]
  /\ UNCHANGED <<now, storeVars, tokenVars, flowVars, up, px, ip, rq, gw>>

\* refreshUser comes back: the profile query answered, failed or timed
\* out; on each path setUser({ id: authUserId, ... }), a new object.
refreshUser ==
  /\ \E h \in ac.handlers :
       /\ h.stage = "refreshUser"
       /\ ac' = [ac EXCEPT !.user = h.user, !.changed = TRUE,
                           !.handlers = (@ \ {h}) \cup {[h EXCEPT !.stage = "setLoading"]}]
  /\ UNCHANGED <<now, storeVars, tokenVars, flowVars, up, px, ip, rq, gw>>

\* The callback after await refreshUser(...): setLoading(false).
setLoading ==
  /\ \E h \in ac.handlers :
       /\ h.stage = "setLoading"
       /\ ac' = [ac EXCEPT !.loading = FALSE, !.changed = @ \/ ac.loading,
                           !.handlers = @ \ {h}]
  /\ UNCHANGED <<now, storeVars, tokenVars, flowVars, up, px, ip, rq, gw>>

\* handleSubmit with valid fields and a returnUrl, up to loginUser, with
\* the credentials of cred (NoUser: of nobody).
AcSubmit(cred) ==
  /\ ac.mount # "closed"
  /\ ~ac.buttonDisabled
  /\ ac' = [ac EXCEPT !.buttonDisabled = TRUE, !.hasProcessedAuth = FALSE,
                      !.submit = "loginUser", !.cred = cred]
  /\ UNCHANGED <<now, storeVars, tokenVars, flowVars, up, px, ip, rq, gw>>

\* loginUser: signInWithPassword.  Accepted: the client has the session of
\* cred and the listener is called with it (SIGNED_IN).  Rejected: loginUser
\* returns the error and handleSubmit enables the button again.
signInWithPassword ==
  /\ ac.submit = "loginUser"
  /\ ac' = IF ac.cred # NoUser
             THEN [ac EXCEPT !.submit = "signedIn", !.client = ac.cred,
                             !.signedOut = FALSE,
                             !.handlers = @ \cup {[user |-> ac.cred, stage |-> "refreshUser"]}]
             ELSE [ac EXCEPT !.submit = "idle", !.buttonDisabled = FALSE]
  /\ UNCHANGED <<now, storeVars, tokenVars, flowVars, up, px, ip, rq, gw>>

\* loginUser returns after its profile query: with the user, and
\* handleSubmit sets waitingForAuth; or with 'Failed to load user profile',
\* and handleSubmit enables the button again.
AcLoginReturns ==
  /\ ac.submit = "signedIn"
  /\ \E profileError \in BOOLEAN :
       ac' = IF profileError
               THEN [ac EXCEPT !.submit = "idle", !.cred = NoUser,
                               !.buttonDisabled = FALSE]
               ELSE [ac EXCEPT !.submit = "idle", !.cred = NoUser,
                               !.waitingForAuth = TRUE,
                               !.changed = @ \/ ~ac.waitingForAuth,
                               !.successes = @ + 1]
  /\ UNCHANGED <<now, storeVars, tokenVars, flowVars, up, px, ip, rq, gw>>

\* Mutant: the effect does not test hasProcessedAuth.current.
EffectCondition_NoRef(a) ==
  a.user # NoUser /\ ~a.loading /\ a.waitingForAuth

\* if (user && !authLoading && waitingForAuth && !hasProcessedAuth.current)
EffectCondition(a) ==
  a.user # NoUser /\ ~a.loading /\ a.waitingForAuth /\ ~a.hasProcessedAuth

\* The effect on [user, authLoading, waitingForAuth] runs after a render in
\* which one of them changed.
AcEffect ==
  /\ ac.changed
  /\ ac' = IF EffectCondition(ac)
             THEN [ac EXCEPT !.changed = FALSE, !.hasProcessedAuth = TRUE,
                             !.runs = @ + 1,
                             !.ran = IF ac.step = "authorize"
                                       THEN "handleAuthorizeSubmit"
                                       ELSE "handleLegacySubmit"]
             ELSE [ac EXCEPT !.changed = FALSE]
  /\ UNCHANGED <<now, storeVars, tokenVars, flowVars, up, px, ip, rq, gw>>

\* signOut of the context (Header, ProfilePage): await
\* supabase.auth.signOut(), which ends the client's session and calls the
\* listener with no session (setUser(null), setLoading(false)).
signOut ==
  /\ ac.mount # "closed"
  /\ ac.signOut = "idle"
  /\ ac.submit = "idle"
  /\ ac' = [ac EXCEPT !.signOut = "awaited", !.client = NoUser, !.user = NoUser,
                      !.loading = FALSE,
                      !.changed = @ \/ ac.user # NoUser \/ ac.loading]
  /\ UNCHANGED <<now, storeVars, tokenVars, flowVars, up, px, ip, rq, gw>>

\* signOut after the await: setUser(null); setSession(null).  It has
\* completed.
AcSignOutEnds ==
  /\ ac.signOut = "awaited"
  /\ ac' = [ac EXCEPT !.signOut = "idle", !.user = NoUser,
                      !.changed = @ \/ ac.user # NoUser,
                      !.signedOut = (ac.client = NoUser)]
  /\ UNCHANGED <<now, storeVars, tokenVars, flowVars, up, px, ip, rq, gw>>

(* ==================== Token Store: one write, alone ==================== *)

\* An optional argument of a write path: omitted (undefined, which the
\* function sees as Null), or supplied.
Omitted == [supplied |-> FALSE, value |-> Null]

Supplied(v) == [supplied |-> TRUE, value |-> v]

\* The records a user can have before the write: none, the empty profile,
\* or a profile with an access token, with or without refresh token and
\* expiry.
PriorRecords ==
  {NoProfile, EmptyProfile} \cup
  {[found |-> TRUE, api_token |-> a, refresh_token |-> r, expires_at |-> e] :
     a \in 1..MaxMint, r \in {Null} \cup 1..MaxMint, e \in {Null} \cup 1..MaxTime}

\* No write is under observation.
IdleUp ==
  [pc |-> "none", path |-> "none", owner |-> NoUser, prior |-> NoProfile,
   access |-> Null, refresh |-> Omitted, expiresIn |-> Omitted]

\* A user with any prior record is about to be written through either path
\* with any arguments, at any time; on the path of updateApiToken the user
\* is signed in.
InitUpsert ==
  /\ oauth_states = [t \in Tokens |-> NoRow]
  /\ issued = 0
  /\ rowLock = [t \in Tokens |-> NoLock]
  /\ cs = [c \in Callers |-> IdleCaller]
  /\ minted = 0
  /\ gv = IdleGv
  /\ page = ClosedPage
  /\ chain = [k \in Chains |-> IdleChain]
  /\ issuer = [t \in Tokens |-> NoUser]
  /\ spent = {}
  /\ px = IdlePx
  /\ ip = IdleIp
  /\ rq = IdleRq
  /\ ac = IdleAc
  /\ gw = IdleGv
  /\ now \in 0..MaxTime
  /\ \E owner \in Users, prior \in PriorRecords, access \in 1..MaxMint,
        path \in {"updateApiTokenForUser", "updateApiToken"},
        refresh \in {Omitted, Supplied(EmptyString)} \cup {Supplied(r) : r \in 1..MaxMint},
        expiresIn \in {Omitted} \cup {Supplied(x) : x \in {0} \cup ExpiresInChoices} :
       /\ up = [pc |-> "call", path |-> path, owner |-> owner, prior |-> prior,
                access |-> access, refresh |-> refresh, expiresIn |-> expiresIn]
       /\ user_profiles = [u \in Users |-> IF u = owner THEN prior ELSE NoProfile]
       /\ session = owner

\* updateApiTokenForUser(owner, access, refresh, expiresIn)
UpsertForUser ==
  /\ up.pc = "call"
  /\ up.path = "updateApiTokenForUser"
  /\ user_profiles' = updateApiTokenForUser(user_profiles, up.owner, up.access,
                                            up.refresh.value, up.expiresIn.value)
  /\ up' = [up EXCEPT !.pc = "done"]
  /\ UNCHANGED <<now, storeVars, session, minted, gv, flowVars, px, sideVars>>

\* updateApiToken(access, refresh, expiresIn) by the signed-in owner, the
\* database answering every query.
UpsertCurrentUser ==
  /\ up.pc = "call"
  /\ up.path = "updateApiToken"
  /\ user_profiles' = updateApiToken(user_profiles, up.access, up.refresh.value,
                                     up.expiresIn.value, "ok").tbl
  /\ up' = [up EXCEPT !.pc = "done"]
  /\ UNCHANGED <<now, storeVars, session, minted, gv, flowVars, px, sideVars>>

(* ----------------------- the sweep on any table ----------------------- *)

\* rows of the table the sweep is run on
NumSweepRows == 2

\* A table of any rows at any time later than one hour: each row belongs to
\* a user, is used or not, and expires around now or around one hour before
\* now.  No transaction is running.
InitSweep ==
  /\ now \in (SweepAge + 1)..(SweepAge + MaxTime)
  /\ oauth_states \in
       [1..NumSweepRows ->
          {[StateRow(u, now + d) EXCEPT !.is_used = used] :
             u \in Users, used \in BOOLEAN,
             d \in {-SweepAge - 1, -SweepAge, -1, 0, 1}}]
  /\ rowLock = [t \in 1..NumSweepRows |-> NoLock]
  /\ issued = NumSweepRows
  /\ cs = [c \in Callers |-> IdleCaller]
  /\ user_profiles = [u \in Users |-> NoProfile]
  /\ session = NoUser
  /\ minted = 0
  /\ gv = IdleGv
  /\ page = ClosedPage
  /\ chain = [k \in Chains |-> IdleChain]
  /\ issuer = [t \in Tokens |-> NoUser]
  /\ spent = {}
  /\ up = IdleUp
  /\ px = IdlePx
  /\ ip = IdleIp
  /\ rq = IdleRq
  /\ ac = IdleAc
  /\ gw = IdleGv

(* ------------ getValidAccessToken in a second tab (gw) ---------------- *)

\* The second invocation up to its first return or to the refresh request
\* (the profile query answering).
GwStart ==
  /\ gw.pc = "idle"
  /\ LET user == session
         profile == IF user = NoUser THEN NoProfile ELSE user_profiles[user]
         me == [gw EXCEPT !.user = user, !.read_at = now]
         return(r) == [me EXCEPT !.pc = "done", !.result = r]
     IN gw' =
          IF user = NoUser
            THEN return(GvResult(Null, ErrNotAuthenticated))
          ELSE IF ~profile.found
            THEN return(GvResult(Null, ErrProfile))
          ELSE IF profile.api_token = Null
            THEN [return(GvResult(Null, ErrNoToken)) EXCEPT !.profile = profile]
          ELSE IF ~isExpiredOrExpiringSoon(profile)
            THEN [return(GvResult(profile.api_token, NoError)) EXCEPT !.profile = profile]
          ELSE IF NoRefreshTokenStored(profile)
            THEN [return(GvResult(Null, ErrNoRefreshToken)) EXCEPT !.profile = profile]
          ELSE [me EXCEPT !.pc = "refreshing", !.profile = profile,
                          !.refreshCalls = @ + 1]
  /\ UNCHANGED <<now, storeVars, tokenVars, flowVars, up, px, ip, rq, ac>>

\* /api/refresh-hubspot-token serving the second invocation.
GwRefreshHandler ==
  /\ gw.pc = "refreshing"
  /\ \/ /\ minted < MaxMint
        /\ \E r \in TokenResponses :
             gw' = [gw EXCEPT !.pc = "responded", !.resp = r,
                              !.providerCalls = @ + 1]
        /\ minted' = minted + 1
     \/ /\ \E status \in {400, 500} :
             gw' = [gw EXCEPT !.pc = "responded", !.resp = ErrorResponse(status)]
        /\ UNCHANGED minted
  /\ UNCHANGED <<now, storeVars, user_profiles, session, gv, flowVars, up, px, ip, rq, ac>>

\* The second invocation after the response.
GwFinish ==
  /\ gw.pc = "responded"
  /\ IF ~ResponseOk(gw.resp)
       THEN /\ gw' = RefreshFailed(gw)
            /\ UNCHANGED user_profiles
       ELSE \E db \in DbOutcomes :
              LET saved == updateApiToken(user_profiles, gw.resp.access_token,
                                          gw.resp.refresh_token,
                                          gw.resp.expires_in, db)
              IN /\ user_profiles' = saved.tbl
                 /\ gw' = [gw EXCEPT
                      !.pc = "done",
                      !.writes = IF saved.res.success THEN @ + 1 ELSE @,
                      !.result = GvResult(gw.resp.access_token, NoError)]
  /\ UNCHANGED <<now, storeVars, session, minted, gv, flowVars, up, px, ip, rq, ac>>

\* The owner is signed in and holds a record from an earlier exchange that
\* is about to expire: every reader finds it stale.
InitRace ==
  /\ now = 0
  /\ oauth_states = [t \in Tokens |-> NoRow]
  /\ issued = 0
  /\ rowLock = [t \in Tokens |-> NoLock]
  /\ cs = [c \in Callers |-> IdleCaller]
  /\ \E owner \in Users :
       /\ session = owner
       /\ user_profiles =
            [u \in Users |->
               IF u = owner
                 THEN [found |-> TRUE, api_token |-> MaxMint + 1,
                       refresh_token |-> MaxMint + 1, expires_at |-> FiveMinutes]
                 ELSE NoProfile]
  /\ minted = 0
  /\ gv = IdleGv
  /\ page = ClosedPage
  /\ chain = [k \in Chains |-> IdleChain]
  /\ issuer = [t \in Tokens |-> NoUser]
  /\ spent = {}
  /\ up = IdleUp
  /\ px = IdlePx
  /\ ip = IdleIp
  /\ rq = IdleRq
  /\ ac = IdleAc
  /\ gw = IdleGv

(* =========================== Specifications =========================== *)

Init ==
  /\ now = 0
  /\ oauth_states = [t \in Tokens |-> NoRow]
  /\ issued = 0
  /\ rowLock = [t \in Tokens |-> NoLock]
  /\ cs = [c \in Callers |-> IdleCaller]
  /\ user_profiles = [u \in Users |-> NoProfile]
  /\ session = NoUser
  /\ minted = 0
  /\ gv = IdleGv
  /\ page = ClosedPage
  /\ chain = [k \in Chains |-> IdleChain]
  /\ issuer = [t \in Tokens |-> NoUser]
  /\ spent = {}
  /\ up = IdleUp
  /\ px = IdlePx
  /\ ip = IdleIp
  /\ rq = IdleRq
  /\ ac = IdleAc
  /\ gw = IdleGv

StoreNext ==
  \/ Tick
  \/ \E u \in Users : IssueState(u)
  \/ \E c \in Callers, t \in Tokens : ConsumeCall(c, t)
  \/ \E c \in Callers : ConsumeSelect(c)
  \/ \E c \in Callers : ConsumeFinish(c)
  \/ Sweep

SpecStore == Init /\ [][StoreNext]_vars

SweepNext == Sweep

SpecSweep == InitSweep /\ [][SweepNext]_vars

TokenNext ==
  \/ Tick
  \/ \E u \in Users : SignIn(u)
  \/ SignOut
  \/ \E u \in Users : CreateProfile(u)
  \/ \E u \in Users : ExchangeSaved(u)
  \/ GvStart
  \/ RefreshHandler
  \/ GvFetchThrows
  \/ GvFinish
  \/ GvCallAgain

SpecToken == Init /\ [][TokenNext]_vars

(* ----------------------- State Store: properties ---------------------- *)

AlreadyUsed == "State token already used"

Expired == "State token expired"

NotFound == "Invalid state token"

\* The callers whose consume of token t found the row and has returned.
Found(t) ==
  {c \in Callers : cs[c].token = t /\ cs[c].pc = "done"
                    /\ cs[c].result.error_message # NotFound}

\* C1: of all the consume calls that present one state token at most one
\* returns the owner; a consume that runs on the record after a successful
\* consume returns 'State token already used', and a used record is never
\* made unused again.
C1_ConsumeAtMostOnce ==
  /\ [](\A t \in Tokens : Cardinality(Owners(t)) <= 1)
  /\ [][\A c \in Callers :
          (cs[c].pc = "locked" /\ cs'[c].pc = "done" /\ Owners(cs[c].token) # {})
            => /\ cs'[c].result.error_message = AlreadyUsed
               /\ oauth_states'[cs[c].token].is_used]_vars
  /\ [][\A t \in Tokens :
          (oauth_states[t].is_used /\ oauth_states'[t].found)
            => oauth_states'[t].is_used]_vars

\* Witness of C1: one call returned the owner, a later one 'already used',
\* and the record is used.
C1_Witness ==
  \E t \in Tokens, c, d \in Callers :
    /\ c \in Owners(t)
    /\ d \in Found(t) /\ ~cs[d].waited
    /\ cs[d].result.error_message = AlreadyUsed
    /\ oauth_states[t].is_used

\* C2: under every interleaving of the callers that present one token
\* before its expires_at, while its record exists: once the record is used
\* exactly one caller has the owner and every other such caller that found
\* the record has 'State token already used'; while it is unused no such
\* caller has returned (the only callers that found it came after
\* expires_at and have 'State token expired').
C2_AtomicConsume ==
  \A t \in Tokens :
    oauth_states[t].found =>
      /\ Cardinality(Owners(t)) = (IF oauth_states[t].is_used THEN 1 ELSE 0)
      /\ \A c \in Found(t) \ Owners(t) :
           IF cs[c].late
             THEN cs[c].result.error_message \in {AlreadyUsed, Expired}
             ELSE /\ cs[c].result.error_message = AlreadyUsed
                  /\ oauth_states[t].is_used

\* Witness of C2: a caller that had to wait for the row lock of the
\* caller that got the owner, and then returned 'already used'.
C2_Witness ==
  \E t \in Tokens, c, d \in Callers :
    /\ c \in Owners(t)
    /\ d \in Found(t) /\ cs[d].waited
    /\ cs[d].result.error_message = AlreadyUsed

\* C6 as claimed: a consume made after expires_at returns 'State token
\* expired', whether the record is used or not.
C6_ExpiredRegardlessOfUsed ==
  \A c \in Callers :
    (cs[c].pc = "done" /\ cs[c].late) => cs[c].result.error_message = Expired

\* C6 as amended: a consume made after expires_at never returns the owner:
\* it returns 'State token expired' when the record is unused and 'State
\* token already used' when it is used.
C6_LateConsumeRejected ==
  /\ [](\A c \in Callers :
          (cs[c].pc = "done" /\ cs[c].late) => ~cs[c].result.is_valid)
  /\ [][\A c \in Callers :
          (/\ cs[c].pc = "locked" /\ cs'[c].pc = "done"
           /\ cs[c].v_state.expires_at < cs[c].txn_now)
            => cs'[c].result.error_message =
                 IF cs[c].v_state.is_used THEN AlreadyUsed ELSE Expired]_vars

\* Witness of C6: a consume made after expires_at of a used record.
C6_Witness ==
  \E c \in Callers :
    /\ cs[c].pc = "done" /\ cs[c].late
    /\ cs[c].result.error_message = AlreadyUsed

FlowNext ==
  \/ Tick
  \/ Sweep
  \/ \E u \in Users : SignIn(u)
  \/ SignOut
  \/ \E u \in Users : CreateProfile(u)
  \/ \E step \in Steps, code \in BOOLEAN, state \in Tokens \cup {NoToken},
        returnUrl \in BOOLEAN : Load(step, code, state, returnUrl)
  \/ initializeApp
  \/ FinalizeConsumeDb
  \/ FinalizeConsumed
  \/ \E k \in Chains : ExchangeRespond(k)
  \/ \E k \in Chains : SaveDone(k)
  \/ \E k \in Chains : AccountInfoDone(k)
  \/ ErrorTimeout
  \/ \E cred \in Users \cup {NoUser} : handleSubmit(cred)
  \/ LoginDone
  \/ AuthEffect
  \/ AuthorizeCreate
  \/ LegacyTimer
  \/ Leave

SpecFlow == Init /\ [][FlowNext]_vars

InstaNext ==
  \/ \E code, returnUrl \in BOOLEAN : IpOpen(code, returnUrl)
  \/ handleInstallation
  \/ IpExchangeRespond
  \/ IpAccountInfoRespond
  \/ IpRedirectTimer
  \/ IpLeave

SpecInsta == Init /\ [][InstaNext]_vars

RefreshNext ==
  \/ \E method \in {"OPTIONS", "POST", "GET"}, hasBody, refresh_token \in BOOLEAN,
        body, env \in SUBSET Credentials :
       RqArrive(method, hasBody, refresh_token, body, env)
  \/ RqProviderAnswers
  \/ RqNextRequest

SpecRefresh == Init /\ [][RefreshNext]_vars

\* The page and its provider with the visitor staying signed in: sign-ins
\* and repeated events, no sign-out.
LoginNext ==
  \/ \E step \in {"authorize", "legacy"}, u \in Users \cup {NoUser} : AcMount(step, u)
  \/ AcGetSession
  \/ \E s \in Users \cup {ac.client} : onAuthStateChange(s)
  \/ refreshUser
  \/ setLoading
  \/ \E cred \in Users \cup {NoUser} : AcSubmit(cred)
  \/ signInWithPassword
  \/ AcLoginReturns
  \/ AcEffect

\* The callbacks and the effect are scheduled by the event loop and by
\* React whenever they are due; the visitor and the network need not act.
FairLogin ==
  /\ Init /\ [][LoginNext]_vars
  /\ WF_vars(AcGetSession) /\ WF_vars(refreshUser) /\ WF_vars(setLoading)
  /\ WF_vars(AcEffect)

AuthNext ==
  \/ \E step \in {"authorize", "legacy"}, u \in Users \cup {NoUser} : AcMount(step, u)
  \/ AcGetSession
  \/ \E s \in Users \cup {NoUser} : onAuthStateChange(s)
  \/ refreshUser
  \/ setLoading
  \/ \E cred \in Users \cup {NoUser} : AcSubmit(cred)
  \/ signInWithPassword
  \/ AcLoginReturns
  \/ AcEffect
  \/ signOut
  \/ AcSignOutEnds

SpecAuth == Init /\ [][AuthNext]_vars

\* Refreshes of one owner's record racing: two invocations of
\* getValidAccessToken and the proxy handler serving the owner's request.
RaceNext ==
  \/ Tick
  \/ GvStart
  \/ RefreshHandler
  \/ GvFinish
  \/ GwStart
  \/ GwRefreshHandler
  \/ GwFinish
  \/ PxStart(TRUE, TRUE, "valid", session)
  \/ PxRefreshHandler
  \/ PxFinish

SpecRace == InitRace /\ [][RaceNext]_vars

UpsertNext ==
  \/ UpsertForUser
  \/ UpsertCurrentUser

SpecUpsert == InitUpsert /\ [][UpsertNext]_vars

ProxyNext ==
  \/ Tick
  \/ \E u \in Users : CreateProfile(u)
  \/ \E u \in Users : ExchangeSaved(u)
  \/ \E hasBody, endpoint \in BOOLEAN, header \in {"missing", "invalid", "valid"},
        u \in Users \cup {NoUser} : PxStart(hasBody, endpoint, header, u)
  \/ PxRefreshHandler
  \/ PxFetchThrows
  \/ PxFinish
  \/ PxNextRequest

SpecProxy == Init /\ [][ProxyNext]_vars

(* --------------------- Token Lifecycle: properties -------------------- *)

\* The profile an invocation read carries a non-empty access token.
ReadToken ==
  gv.pc # "idle" /\ gv.profile.found /\ gv.profile.api_token # Null

\* ... whose expires_at was more than five minutes after the read.
ReadFresh ==
  /\ ReadToken
  /\ gv.profile.expires_at # Null
  /\ gv.profile.expires_at > gv.read_at + FiveMinutes

\* ... which was stale: no expires_at, or at most five minutes after the read.
ReadStale == ReadToken /\ ~ReadFresh

\* ... and which carried no refresh token.
ReadStaleWithoutRefreshToken ==
  ReadStale /\ gv.profile.refresh_token = Null

\* An invocation returns without having touched the Token Store.
ReturnsWithoutWrite ==
  (gv.pc = "idle" /\ gv'.pc = "done") => user_profiles' = user_profiles

\* C8: when the stored access token is non-empty and expires_at is more than
\* five minutes after now, getValidAccessToken returns the stored access
\* token, has made no call to the refresh endpoint and no write to the Token
\* Store, and the step that returns leaves the Token Store as it was.
C8_FreshTokenReturned ==
  /\ [](ReadFresh =>
          /\ gv.pc = "done"
          /\ gv.result = GvResult(gv.profile.api_token, NoError)
          /\ gv.refreshCalls = 0
          /\ gv.writes = 0)
  /\ [][ReadFresh' => ReturnsWithoutWrite]_vars

\* C8 witness: an invocation returned a stored token that had more than five
\* minutes left, after the provider had answered other requests.
C8_Witness ==
  /\ ReadFresh
    /\ gv.pc = "done"
    /\ gv.result.token = gv.profile.api_token
    /\ gv.profile.refresh_token # Null

\* C10: when the stored token is stale (no expiry, expired, or expiring
\* within five minutes) and no refresh token is stored, getValidAccessToken
\* fails with the no-refresh-token error, without a call to the refresh
\* endpoint and without a change of the Token Store.
C10_NoRefreshTokenError ==
  /\ [](ReadStaleWithoutRefreshToken =>
          /\ gv.pc = "done"
          /\ gv.result = GvResult(Null, ErrNoRefreshToken)
          /\ gv.refreshCalls = 0
          /\ gv.writes = 0)
  /\ [][ReadStaleWithoutRefreshToken'
                          => ReturnsWithoutWrite]_vars

\* C10 witness: an invocation failed with the no-refresh-token error on a
\* token whose expiry had been stored and had passed.
C10_Witness ==
  /\ gv.pc = "done"
    /\ gv.result.error = ErrNoRefreshToken
    /\ gv.profile.expires_at # Null
    /\ gv.profile.expires_at < gv.read_at
    /\ gv.profile.refresh_token = Null

\* The invocation read an expires_at in the past and a refresh token.
ReadExpiredWithRefreshToken ==
  /\ ReadToken
  /\ gv.profile.expires_at # Null
  /\ gv.profile.expires_at < gv.read_at
  /\ gv.profile.refresh_token # Null

C3_NoExchangeWithoutOwner ==
  page.step = "finalize" =>
    \A k \in Chains :
      (chain[k].requests > 0 \/ chain[k].writes > 0) =>
        chain["init"].result.is_valid

\* The finalize chain's consume step, with its result.
FinalizeConsumeStep ==
  chain["init"].pc = "consuming" /\ chain'["init"].pc = "consumed"

\* The finalize chain's save step that succeeded.
FinalizeSaveStep ==
  chain["init"].pc = "saving" /\ chain'["init"].pc = "saved"

\* The row of oauth_states[t] is not an unused record.
UsedOrGone(tbl, t) == tbl[t].found => tbl[t].is_used

C5_OwnerRecordOnly ==
  /\ [](chain["init"].saveError # ErrNotAuthenticated)
  /\ [][(chain["init"].pc = "saving" /\ chain'["init"].pc # "saving"
           /\ page' # ClosedPage) =>
          LET owner == chain["init"].userId
          IN /\ owner = issuer[page.state]
             /\ \A u \in Users \ {owner} : user_profiles'[u] = user_profiles[u]
             /\ chain'["init"].pc = "saved" =>
                  user_profiles'[owner].api_token = chain["init"].resp.access_token]_vars

\* C5 witness: the finalize chain saved the tokens for the issuer while
\* nobody was signed in.
C5_Witness ==
  /\ chain["init"].pc = "saved"
  /\ chain["init"].writes = 1
  /\ session = NoUser
  /\ user_profiles[chain["init"].userId].api_token = chain["init"].resp.access_token

\* The finalize page's URL lacks the code or the state.
ParameterAbsent == page.step = "finalize" /\ (~page.code \/ page.state = NoToken)

\* C7: finalize without the code or without the state fails with the
\* missing-parameter error in the step that starts it: no call to the State
\* Store, the exchange endpoint or the Token Store is made by it, and all
\* stored state is as before.
C7_MissingParameter ==
  /\ []((ParameterAbsent /\ chain["init"].pc # "mounting") =>
          /\ chain["init"].pc = "failed"
          /\ chain["init"].result.error_message =
               (IF ~page.code THEN ErrMissingCode ELSE ErrMissingState)
          /\ chain["init"].requests = 0
          /\ chain["init"].writes = 0)
  /\ [][(ParameterAbsent /\ chain["init"].pc = "mounting"
           /\ chain'["init"].pc # "mounting" /\ page' # ClosedPage) =>
          UNCHANGED <<oauth_states, issued, user_profiles, session, minted, spent>>]_vars

\* C7 witness: a finalize page with a code and no state failed with the
\* missing-state error.
C7_Witness ==
  /\ page.step = "finalize"
  /\ page.code
  /\ page.state = NoToken
  /\ chain["init"].pc = "failed"
  /\ chain["init"].result.error_message = ErrMissingState

(* ----------------------- Token Store: properties ---------------------- *)

\* The coalescing reference: the access token is overwritten; refresh token
\* and expires_at take the supplied value, or keep the stored one.
CoalescingReference(prior, access, refresh, expires_at) ==
  [found |-> TRUE,
   api_token |-> access,
   refresh_token |-> IF refresh.supplied THEN refresh.value ELSE prior.refresh_token,
   expires_at |-> IF expires_at.supplied THEN expires_at.value ELSE prior.expires_at]

\* C11 as claimed: on both write paths the record after the write equals the
\* coalescing reference for every prior record and every argument
\* combination.
C11_UpsertEqualsReference ==
  up.pc = "done" =>
    user_profiles[up.owner] =
      CoalescingReference(up.prior, up.access, up.refresh,
                          IF up.expiresIn.supplied
                            THEN Supplied(now + up.expiresIn.value) ELSE Omitted)

\* C11 witness: a write that supplied expires_in = 0 replaced the access
\* token of a record and kept the expiry stored with the previous token.
C11_Witness ==
  /\ up.pc = "done"
  /\ up.expiresIn = Supplied(0)
  /\ up.prior.found
  /\ up.prior.expires_at # Null
  /\ up.prior.expires_at # now
  /\ up.access # up.prior.api_token
  /\ user_profiles[up.owner].api_token = up.access
  /\ user_profiles[up.owner].expires_at = up.prior.expires_at

(* ------------------- absent expiry: both readers ---------------------- *)

\* C12 as claimed: a reader that finds a record without expires_at treats it
\* as stale: getValidAccessToken and the proxy handler request a refresh or
\* fail with the no-refresh-token error, and the stored access token is
\* never handed out or sent to the HubSpot API.
C12_AbsentExpiryTreatedStale ==
  /\ (gv.pc = "done" /\ gv.profile.api_token # Null /\ gv.profile.expires_at = Null) =>
       /\ gv.refreshCalls > 0 \/ gv.result.error = ErrNoRefreshToken
       /\ gv.result.token # gv.profile.api_token
  /\ (px.pc = "done" /\ px.profile.api_token # Null /\ px.profile.expires_at = Null) =>
       /\ px.refreshCalls > 0 \/ px.answer.error = ErrNoRefreshToken
       /\ px.sent # px.profile.api_token

\* C12 witness: the proxy handler read a record without expires_at and sent
\* its access token to the HubSpot API without a refresh request.
C12_Witness ==
  /\ px.pc = "done"
  /\ px.profile.api_token # Null
  /\ px.profile.expires_at = Null
  /\ px.refreshCalls = 0
  /\ px.sent = px.profile.api_token

(* ---------------------- refresh failure, no retry --------------------- *)

\* C13: when the refresh request of getValidAccessToken fails (a response
\* that is not ok, or a fetch that throws), the invocation returns no token
\* and the refresh-failed error (the thrown error's message after a
\* transport error), it has made no Token Store write, and none of its
\* steps changed a stored record.
C13_RefreshFailureKeepsRecord ==
  /\ [](gv.pc = "done" /\ gv.refreshCalls > 0 /\ ~gv.resp.ok =>
          /\ gv.result.token = Null
          /\ gv.result.error \in {ErrRefreshFailed, ErrThrown}
          /\ gv.writes = 0)
  /\ [][gv' # gv /\ ~(gv.pc = "responded" /\ gv.resp.ok) =>
          user_profiles' = user_profiles]_vars

\* C13 witness: a refresh answered 400 ended the invocation with the
\* refresh-failed error while the record still held the token it read.
C13_Witness ==
  /\ gv.pc = "done"
  /\ gv.resp.status = 400
  /\ gv.result = GvResult(Null, ErrRefreshFailed)
  /\ user_profiles[gv.user].api_token = gv.profile.api_token
  /\ user_profiles[gv.user].refresh_token = gv.profile.refresh_token
  /\ user_profiles[gv.user].expires_at = gv.profile.expires_at

\* C14: one invocation of getValidAccessToken sends at most one refresh
\* request, the refresh endpoint sends at most one request to the provider
\* for it, and an invocation that has returned sends nothing more: whatever
\* the response and the outcome of the save, no step goes back to the
\* request.
C14_AtMostOneRefresh ==
  /\ [](/\ gv.refreshCalls <= 1
        /\ gv.providerCalls <= gv.refreshCalls)
  /\ [][/\ gv.pc = "responded" => gv'.pc \in {"responded", "done"}
        /\ gv.pc = "done" =>
             \/ gv' = gv
             \/ gv' = IdleGv]_vars

\* C14 witness: an invocation whose one refresh request failed at the
\* provider has returned.
C14_Witness ==
  /\ gv.pc = "done"
  /\ gv.refreshCalls = 1
  /\ gv.providerCalls = 1
  /\ gv.result.error = ErrRefreshFailed

(* ---------------------- OAuthPage: failure paths ---------------------- *)

\* C15 as claimed: after a failure of the authorize, finalize or legacy
\* processing the page returns to its initial interactive state: once the
\* error message has timed out and no processing is under way, the login
\* form is visible and its submit button is enabled.
C15_FailureReturnsToForm ==
  (/\ page.step \in Steps
   /\ \E k \in Chains : chain[k].pc = "failed"
   /\ \A k \in Chains : chain[k].pc \in {"idle", "failed"}
   /\ ~page.errorTimer)
  => page.showForm /\ ~page.buttonDisabled

\* C15 witness: state creation failed after a successful login; the error
\* has timed out, the form is back and its submit button is still disabled.
C15_Witness ==
  /\ page.step = "authorize"
  /\ chain["auth"].pc = "failed"
  /\ chain["init"].pc = "idle"
  /\ ~page.errorTimer
  /\ page.showForm
  /\ page.buttonDisabled

\* C16 as claimed: in finalize a failure of the account fetch after the
\* tokens were saved does not fail the flow: a finalize chain that has saved
\* goes on to the welcome message and never enters the error state.
C16_AccountFetchNotFatal ==
  chain["init"].writes > 0 => chain["init"].pc \in {"saved", "welcome"}

\* C16 witness: the finalize chain saved the tokens and then showed the
\* error of the account fetch.
C16_Witness ==
  /\ page.step = "finalize"
  /\ chain["init"].writes = 1
  /\ chain["init"].pc = "failed"
  /\ page.errorTimer
  /\ ~page.showForm

\* C17: in finalize and legacy the step in which the account fetch fails
\* changes no stored record: the tokens saved in the preceding step stay.
C17_AccountFetchKeepsRecord ==
  [][\A k \in Chains :
       chain[k].pc = "saved" /\ chain'[k].pc = "failed" =>
         user_profiles' = user_profiles]_vars

\* C17 witness: the account fetch of the finalize chain failed and the
\* owner's record holds the access token, refresh token and expiry of the
\* exchange.
C17_Witness ==
  /\ chain["init"].pc = "failed"
  /\ chain["init"].writes = 1
  /\ LET rec == user_profiles[chain["init"].userId]
         r == chain["init"].resp
     IN /\ rec.api_token = r.access_token
        /\ rec.refresh_token = r.refresh_token
        /\ rec.expires_at # Null

\* C18: handleAuthorizeSubmit run without a session ends with the error
\* 'Not authenticated': it creates no state record and never reaches the
\* redirect to the return URL.
C18_AuthorizeUnauthenticated ==
  [][(/\ chain["auth"].pc = "creating"
      /\ session = NoUser
      /\ chain'["auth"].pc \notin {"creating", "idle"})
     => /\ chain'["auth"].pc = "failed"
        /\ chain'["auth"].result.error_message = ErrNotAuthenticated
        /\ oauth_states' = oauth_states
        /\ issued' = issued
        /\ page'.errorTimer]_vars

\* C18 witness: the session ended between the login and createOAuthState,
\* and the authorize processing failed with 'Not authenticated' with no
\* state record created.
C18_Witness ==
  /\ page.step = "authorize"
  /\ chain["auth"].pc = "failed"
  /\ chain["auth"].result.error_message = ErrNotAuthenticated
  /\ issued = 0

\* C19: exchangeCodeForToken goes on to the account fetch and the welcome
\* message only after a Token Store write that reported success; a write
\* that failed stores no token (it can have created the user's empty
\* profile) and ends the chain in the error state, from which it reaches
\* neither the account fetch nor the welcome message.
C19_SuccessOnlyAfterWrite ==
  /\ [](\A k \in Chains :
          /\ chain[k].pc \in {"saved", "welcome"} =>
               chain[k].writes = 1 /\ chain[k].saveError = NoError
          /\ chain[k].saveError # NoError =>
               chain[k].pc = "failed" /\ chain[k].writes = 0)
  /\ [][\A k \in Chains :
          /\ (chain[k].pc = "saving" /\ chain'[k].pc = "failed") =>
               \A u \in Users :
                 /\ user_profiles'[u].api_token = user_profiles[u].api_token
                 /\ user_profiles'[u].refresh_token = user_profiles[u].refresh_token
                 /\ user_profiles'[u].expires_at = user_profiles[u].expires_at
          /\ (chain[k].pc = "failed" /\ chain[k].saveError # NoError) =>
               chain'[k].pc \in {"failed", "idle"}]_vars

\* C19 witness: the write of the finalize chain failed; the chain stopped
\* with the error and the owner's record does not hold the new token.
C19_Witness ==
  /\ chain["init"].pc = "failed"
  /\ chain["init"].saveError # NoError
  /\ chain["init"].writes = 0
  /\ user_profiles[chain["init"].userId].api_token # chain["init"].resp.access_token

\* C20: when the exchange of the finalize chain fails, the step changes
\* neither the state records nor the token records; the state it consumed
\* stays used (or is swept), and no later consume accepts it.
C20_ExchangeFailureKeepsStateUsed ==
  /\ [](chain["init"].pc = "failed" /\ chain["init"].requests = 1 =>
          /\ page.state \in spent
          /\ UsedOrGone(oauth_states, page.state))
  /\ [][/\ (chain["init"].pc = "exchanging" /\ chain'["init"].pc = "failed") =>
             /\ user_profiles' = user_profiles
             /\ oauth_states' = oauth_states
        /\ (FinalizeConsumeStep /\ page.state \in spent) =>
             ~chain'["init"].result.is_valid]_vars

\* C20 witness: the exchange of the finalize chain failed; the state is
\* still recorded as used and the owner has no token.
C20_Witness ==
  /\ chain["init"].pc = "failed"
  /\ chain["init"].requests = 1
  /\ chain["init"].resp = NoResponse
  /\ oauth_states[page.state].found
  /\ oauth_states[page.state].is_used
  /\ user_profiles[chain["init"].userId].api_token = Null

(* --------------------------- sweep: properties ------------------------ *)

C22_LegacyWritesSessionUser ==
  [][page.step = "legacy" /\ chain'["auth"] # chain["auth"] =>
       /\ oauth_states' = oauth_states
       /\ issued' = issued
       /\ spent' = spent
       /\ chain["auth"].pc # "saving" => user_profiles' = user_profiles
       /\ (chain["auth"].pc = "saving" /\ chain'["auth"].pc # "idle") =>
            /\ \A u \in Users \ {session} : user_profiles'[u] = user_profiles[u]
            /\ chain'["auth"].pc = "saved" =>
                 /\ session # NoUser
                 /\ user_profiles'[session].api_token = chain["auth"].resp.access_token
            /\ session = NoUser =>
                 /\ chain'["auth"].pc = "failed"
                 /\ chain'["auth"].saveError = ErrNotAuthenticated
                 /\ user_profiles' = user_profiles
       /\ chain["auth"].pc = "leaving" =>
            /\ ~page.code
            /\ page' = ClosedPage]_vars

\* C22 witness: the legacy exchange ran with the session gone: the save
\* failed with 'Not authenticated' after one exchange request.
C22_Witness ==
  /\ page.step = "legacy"
  /\ page.code
  /\ chain["auth"].pc = "failed"
  /\ chain["auth"].requests = 1
  /\ chain["auth"].saveError = ErrNotAuthenticated
  /\ session = NoUser

(* ------------------------ InstaPotat: properties ---------------------- *)

\* C23: the InstaPotat page writes instapotat_access_token and
\* instapotat_portal_id, and sends the window to returnUrl, only on a URL
\* with code and returnUrl after exchange_code answered an access token and
\* get_account_info a portal id, and what it stores are these two values;
\* without code or returnUrl it sends no request; a run that failed has
\* ended processing, stored nothing, and does not redirect.
C23_InstaPotatStoresOnlyOnSuccess ==
  /\ [](/\ ip.location = "returnUrl" =>
            /\ ip.code /\ ip.returnUrl
            /\ ip.access_token # Null /\ ip.portalId # Null
            /\ ip.localStorage = Storage(ip.access_token, ip.portalId)
        /\ ~ip.code \/ ~ip.returnUrl => ip.exchangeCalls = 0 /\ ip.infoCalls = 0
        /\ ip.pc = "failed" => ~ip.isProcessing /\ ip.location # "returnUrl")
  /\ [][/\ ip'.localStorage # ip.localStorage =>
            /\ ip'.code /\ ip'.returnUrl
            /\ ip'.exchangeCalls = 1 /\ ip'.infoCalls = 1
            /\ ip'.access_token # Null /\ ip'.portalId # Null
            /\ ip'.localStorage = Storage(ip'.access_token, ip'.portalId)
            /\ ip'.pc = "installed" /\ ~ip'.isProcessing
        /\ ip'.pc = "failed" => ip'.localStorage = ip.localStorage
        /\ ip.pc = "failed" =>
            /\ ip'.pc \in {"failed", "closed"}
            /\ ip'.localStorage = ip.localStorage
            /\ ip'.location = ip.location]_vars

\* C23 witness: after an installation that stored token 1 and portal 1, a
\* second run got access token 2 and failed at the account info: the page
\* has ended processing and localStorage still holds the first pair.
C23_Witness ==
  /\ ip.pc = "failed" /\ ~ip.isProcessing
  /\ ip.access_token = 2 /\ ip.infoCalls = 1 /\ ip.portalId = Null
  /\ ip.localStorage = Storage(1, 1)
  /\ ip.location = "instapotat-oauth"
(* ------------------- the refresh endpoint: properties ----------------- *)

\* C24: the refresh endpoint asks the provider only for a POST with a
\* refresh_token and all three credentials available from the body or the
\* environment; OPTIONS is answered 200, another method 405, a POST without
\* refresh_token 400, one without credentials 500, each without a provider
\* request; a non-success answer of the provider is passed on with its
\* status and without tokens, and tokens are answered only with the
\* provider's 200.
C24_RefreshEndpointAnswers ==
  /\ rq.providerCalls > 0 =>
       /\ rq.method = "POST" /\ rq.refresh_token
       /\ Credentials \subseteq rq.body \cup rq.env
  /\ rq.pc = "done" =>
       /\ rq.method = "OPTIONS" => rq.answer.status = 200 /\ ~rq.answer.tokens
       /\ rq.method \notin {"OPTIONS", "POST"} => rq.answer.status = 405
       /\ rq.method = "POST" /\ ~rq.refresh_token => rq.answer.status = 400
       /\ rq.method = "POST" /\ rq.refresh_token
            /\ ~(Credentials \subseteq rq.body \cup rq.env) => rq.answer.status = 500
       /\ rq.provider \notin {Null, 200} =>
            rq.answer.status = rq.provider /\ ~rq.answer.tokens
       /\ rq.answer.tokens => rq.provider = 200 /\ rq.answer.status = 200

\* C24 witness: a POST without a body (no refresh_token) has been served:
\* the handler threw before writing an answer, and asked the provider
\* nothing.
C24_Witness ==
  /\ rq.pc = "done" /\ rq.method = "POST" /\ ~rq.hasBody /\ ~rq.refresh_token
  /\ rq.answer.thrown /\ rq.answer.status # 400 /\ rq.providerCalls = 0
(* ------------------ /api/hubspot-proxy: properties -------------------- *)

\* C25: the proxy handler sends a request to the HubSpot API only when the
\* request named an endpoint and carried a Bearer token that validated to a
\* user whose profile holds an api_token; every other request is answered
\* 400, 401 or 404 with no HubSpot request and no profile update; and the
\* token it forwards is the validated user's: the api_token of the profile
\* it read for that user, or the access token refreshed with it.
C25_ProxyForwardsOnlyForValidatedUser ==
  LET entitled == /\ px.endpoint /\ px.header = "valid" /\ px.user # NoUser
                  /\ px.profile.found /\ px.profile.api_token # Null
  IN /\ px.sent # Null =>
          /\ entitled
          /\ \/ px.sent = px.profile.api_token
             \/ px.resp.ok /\ px.sent = px.resp.access_token
     /\ px.writes > 0 => entitled
     /\ px.pc = "done" /\ ~entitled =>
          /\ px.answer.status \in {400, 401, 404}
          /\ px.sent = Null /\ px.writes = 0 /\ px.refreshCalls = 0

\* C25 witness: a request without a body object (so without endpoint) has
\* been answered 500 by the outer catch, with no HubSpot request and no
\* profile update.
C25_Witness ==
  /\ px.pc = "done" /\ ~px.hasBody /\ ~px.endpoint
  /\ px.answer = PxAnswer(500, "Internal server error")
  /\ px.sent = Null /\ px.writes = 0

\* C26: when the expiry the handler read is at or before its now + 5
\* minutes, the request reaches the HubSpot API only after an ok refresh
\* response, and then with that response's access token, whether or not the
\* update was written; without a stored refresh token it answers 401 with
\* no refresh request, on a refresh response that is not ok 401, on a throw
\* 500, each with no HubSpot request; the stored token is never forwarded.
C26_ProxyNeverForwardsStale ==
  px.pc = "done" /\ px.profile.found /\ px.profile.api_token # Null
    /\ px.profile.expires_at # Null
    /\ px.profile.expires_at <= px.read_at + FiveMinutes =>
      /\ px.sent # px.profile.api_token
      /\ px.sent # Null =>
           /\ px.refreshCalls = 1 /\ px.resp.ok
           /\ px.sent = px.resp.access_token
           /\ px.answer.status = 200
      /\ px.sent = Null => px.answer.status \in {401, 500}
      /\ px.profile.refresh_token = Null =>
           px.answer.status = 401 /\ px.refreshCalls = 0 /\ px.sent = Null
      /\ px.refreshCalls = 1 /\ ~px.resp.ok =>
           px.sent = Null /\ px.writes = 0
      /\ px.refreshCalls = 1 /\ px.resp # NoResponse /\ ~px.resp.ok =>
           px.answer.status = 401

\* C26 witness: the handler read a stale record, the refresh succeeded, the
\* update of the profile failed, and the request went to HubSpot with the
\* new access token while the record still holds the old one.
C26_Witness ==
  /\ px.pc = "done" /\ px.user # NoUser
  /\ px.profile.expires_at # Null /\ px.profile.expires_at <= px.read_at + FiveMinutes
  /\ px.resp.ok /\ px.writes = 0
  /\ px.sent = px.resp.access_token /\ px.sent # px.profile.api_token
  /\ user_profiles[px.user] = px.profile
(* --------------------- AuthProvider: properties ----------------------- *)

\* C27: on the OAuth page the continuation never runs before a login
\* submission has succeeded and never more often than submissions have
\* succeeded; it is handleAuthorizeSubmit on step authorize and
\* handleLegacySubmit otherwise; and once a submission has succeeded the
\* continuation eventually has run exactly once, whatever the order and
\* number of setUser, setLoading(false) and auth-state events around
\* waitingForAuth becoming true.
C27_ContinuationRunsOnce ==
  /\ [](/\ ac.runs <= ac.successes
        /\ ac.runs > 0 =>
             ac.ran = IF ac.step = "authorize" THEN "handleAuthorizeSubmit"
                      ELSE "handleLegacySubmit")
  /\ [][ac'.runs > ac.runs => ac.waitingForAuth /\ ac'.runs = ac.runs + 1]_vars
  /\ (ac.successes = 1 ~> ac.runs = 1)

\* C27 witness: on step authorize the submission succeeded, the
\* continuation handleAuthorizeSubmit has run once, and a later auth-state
\* event has a refreshUser in flight while another callback is about to
\* clear loading again.
C27_Witness ==
  /\ ac.step = "authorize" /\ ac.successes = 1 /\ ac.runs = 1
  /\ ac.ran = "handleAuthorizeSubmit" /\ ac.hasProcessedAuth
  /\ \E h \in ac.handlers : h.stage = "refreshUser"
  /\ \E h \in ac.handlers : h.stage = "setLoading"

\* C28: once signOut has completed, the context user is null until a later
\* sign-in event, also when a refreshUser started before the sign-out
\* comes back after it.
C28_SignedOutUserStaysNull ==
  ac.signedOut => ac.user = NoUser

\* C28 witness: signOut has completed, nobody has signed in since, the
\* client has no session, and the context user is a user again.
C28_Witness ==
  /\ ac.signedOut /\ ac.client = NoUser /\ ac.signOut = "idle"
  /\ ac.user # NoUser
(* ----------------------- racing refreshes: property ------------------- *)

\* C29: when refreshes of one owner's record interleave (two invocations of
\* getValidAccessToken, or one and the proxy handler) and every provider
\* response carries access token, refresh token and expires_in, the record
\* is at every moment the earlier record or the access token, refresh
\* token and expiry of one single response (its expires_in added to a time
\* of that refresher between its read and now); every write replaces the
\* three fields together.
C29_RecordFromOneResponse ==
  /\ [](LET full(x) == x.resp.ok =>
                         x.resp.refresh_token # Null /\ x.resp.expires_in # Null
            r == user_profiles[session]
        IN (\A x \in {gv, gw, px} : full(x)) =>
             \/ /\ r.api_token = MaxMint + 1 /\ r.refresh_token = MaxMint + 1
                /\ r.expires_at = FiveMinutes
             \/ \E x \in {gv, gw, px} :
                  /\ x.resp.ok
                  /\ r.api_token = x.resp.access_token
                  /\ r.refresh_token = x.resp.refresh_token
                  /\ r.expires_at # Null
                  /\ r.expires_at - x.resp.expires_in \in x.read_at..now)
  /\ [][LET full(x) == x.resp.ok =>
                         x.resp.refresh_token # Null /\ x.resp.expires_in # Null
            r == user_profiles'[session]
        IN (\A x \in {gv, gw, px} : full(x)) /\ user_profiles' # user_profiles =>
             \E x \in {gv', gw', px'} :
               /\ x.pc = "done" /\ x.writes = 1 /\ x.resp.ok
               /\ r.api_token = x.resp.access_token
               /\ r.refresh_token = x.resp.refresh_token
               /\ r.expires_at # Null
               /\ r.expires_at - x.resp.expires_in \in {x.read_at, now}]_vars

\* C29 witness: an invocation of getValidAccessToken and the proxy handler
\* both read the stale record, got different full responses, and both
\* wrote; the record holds the three values of the second tab's or the
\* proxy's response whole.
C29_Witness ==
  /\ gv.pc = "done" /\ gv.writes = 1 /\ px.pc = "done" /\ px.writes = 1
  /\ gv.profile = px.profile /\ gv.resp # px.resp
  /\ gv.resp.refresh_token # Null /\ gv.resp.expires_in # Null
  /\ px.resp.refresh_token # Null
  /\ user_profiles[session].api_token = px.resp.access_token
  /\ user_profiles[session].refresh_token = px.resp.refresh_token
  /\ user_profiles[session].expires_at = px.read_at + px.resp.expires_in
  /\ px.resp.access_token < gv.resp.access_token
(* ------------------ State Store: consumed for good -------------------- *)

\* C30: once a consume has returned the owner of a state token, the record
\* of the token is used or gone, and every consume of the token that
\* returns afterwards is refused: with 'State token already used' while the
\* record exists, with 'Invalid state token' once the sweep has removed it;
\* under every interleaving of issue, consume, sweep and the clock.
C30_ConsumedNeverAcceptedAgain ==
  /\ [](\A t \in Tokens :
          (\E c \in Callers : cs[c].token = t /\ cs[c].pc = "done"
                                /\ cs[c].result.is_valid)
            => (oauth_states[t].found => oauth_states[t].is_used))
  /\ [][\A c \in Callers :
          LET t == cs[c].token IN
          (/\ cs[c].pc # "done" /\ cs'[c].pc = "done"
           /\ \E d \in Callers \ {c} : /\ cs[d].token = t /\ cs[d].pc = "done"
                                        /\ cs[d].result.is_valid)
            => /\ ~cs'[c].result.is_valid
               /\ cs'[c].result.user_id = NoUser
               /\ cs'[c].result.error_message =
                    IF oauth_states[t].found THEN "State token already used"
                    ELSE "Invalid state token"
               /\ oauth_states' = oauth_states]_vars

\* C30 witness: a consume returned the owner, the sweep removed the used
\* record, and a consume of the same token that started afterwards returned
\* 'Invalid state token'.
C30_Witness ==
  \E t \in Tokens, c, d \in Callers :
    /\ t <= issued
    /\ cs[d].token = t /\ cs[d].pc = "done" /\ cs[d].result.is_valid
    /\ ~oauth_states[t].found
    /\ cs[c].token = t /\ cs[c].pc = "done" /\ ~cs[c].waited
    /\ cs[c].result = ConsumeResult(NoUser, FALSE, "Invalid state token")
====
